---- MODULE Spec2Model ----
(***************************************************************************)
(* Model of the counselors dispatch core: the binary executor (execute),   *)
(* the dispatcher (dispatch) with its p-limit concurrency limiter, and the *)
(* adapters' buildInvocation.                                              *)
(*                                                                         *)
(* Text is modelled as a sequence of characters over a small alphabet:     *)
(*   "x" an ordinary character, "s" a whitespace character, "a" one ANSI   *)
(*   escape sequence, "m" the truncation marker, "E" a character of a      *)
(*   spawn/kill error message, "n" a control character of a path.          *)
(* Time is a discrete clock; one tick is the unit in which the timeouts    *)
(* and KILL_GRACE_PERIOD are expressed.                                    *)
(***************************************************************************)
EXTENDS Integers, Sequences, FiniteSets, TLC

\* ------------------------------------------------------------------ bounds
MaxTools == 2
MaxTimeout == 2
KillLatency == 1
MaxChunks == 2

\* -------------------------------------------------------- program constants
\* src/unnamed/part_009:266 (10 * 1024 * 1024), scaled to the model's alphabet
MAX_OUTPUT_BYTES == 2
\* src/unnamed/part_011:22 (15_000 ms), in clock ticks
KILL_GRACE_PERIOD == 2

Slots == 1..MaxTools

VARIABLES
    mode,            \* "direct": execute called by itself; "dispatch": through
                     \* dispatch; "adapter": buildInvocation called by itself
    \* ---- execute(), one instance per slot
    child,           \* "none" | "failing" | "running" | "dying" | "errored" | "closed"
    killable,        \* whether kill() on the child succeeds (EPERM otherwise)
    timeoutMs,       \* the timeoutMs argument, in ticks
    elapsed,         \* ticks since execute() was called
    stdout, stderr,  \* the accumulated strings
    truncated, timedOut, killed,
    timer, killTimer,\* "none" | "pending" | "fired" | "cleared"
    killAt,          \* tick at which killTimer is due
    closeBy,         \* tick by which a SIGKILLed child has closed
    settled, result, \* the promise of execute()
    signals,         \* signals passed to child.kill by execute's timers, in order
    sigAt,           \* the ticks at which they were sent
    emittedOut, emittedErr, \* what the child wrote on each stream
    chunksOut, chunksErr,
    activeChildren,
    \* ---- dispatch(options)
    toolIds, readOnlyPolicy, config,   \* the options
    dpc,             \* "called" | "rejected" | "running" | "returned"
    dispatchError,   \* the message dispatch rejected with
    eligibleTools,
    task,            \* "unused" | "queued" | "usageBefore" | "executing" |
                     \* "usageAfter" | "fulfilled" | "rejected"
    usageBefore,     \* whether the first usage snapshot was captured
    thrown,          \* where a rejected task threw
    report,          \* the ToolReport a fulfilled task returned
    results,         \* the list dispatch returned
    events,          \* per task, the progress events delivered to onProgress, in order
    files,           \* the files written by safeWriteFile
    warnings,
    \* ---- adapter.buildInvocation(req), called by itself
    adIn, adOut,
    \* ---- a helper function called by itself: its arguments and what it returned
    fnIn, fnOut,
    \* ---- the parent process: its clock and its SIGINT handling
    process

execVars == <<child, killable, timeoutMs, elapsed, stdout, stderr, truncated,
              timedOut, killed, timer, killTimer, killAt, closeBy, settled,
              result, signals, sigAt, emittedOut, emittedErr, chunksOut,
              chunksErr, activeChildren>>

dispVars == <<toolIds, readOnlyPolicy, config, dpc, dispatchError, eligibleTools,
              task, usageBefore, thrown, report, results, events, files,
              warnings>>

adVars == <<adIn, adOut, fnIn, fnOut, process>>

vars == <<mode, execVars, dispVars, adVars>>

\* ------------------------------------------------------------------- text
Chunks == { <<"x">>, <<"a", "x">>, <<"x", "s", "x", "x">> }
\* '\n[output truncated at 10MB]'
TruncationMarker == <<"s", "m">>
SpawnErrorMessage == <<"E", "E">>
KillErrorMessage == <<"E">>

\* stdout.slice(0, n)
Slice(s, n) == SubSeq(s, 1, IF Len(s) < n THEN Len(s) ELSE n)

IsNotAnsi(c) == c # "a"
\* strip-ansi: removes every escape sequence, keeps everything else
stripAnsi(s) == SelectSeq(s, IsNotAnsi)

\* the stdout 'data' handler
StdoutOnData(out, trunc, data) ==
    IF ~trunc /\ Len(out) < MAX_OUTPUT_BYTES
    THEN LET grown == out \o data IN
         IF Len(grown) >= MAX_OUTPUT_BYTES
         THEN [stdout |-> Slice(grown, MAX_OUTPUT_BYTES) \o TruncationMarker,
               truncated |-> TRUE]
         ELSE [stdout |-> grown, truncated |-> trunc]
    ELSE [stdout |-> out, truncated |-> trunc]

\* the stderr 'data' handler
StderrOnData(err, data) ==
    IF Len(err) < MAX_OUTPUT_BYTES THEN err \o data ELSE err

\* a clearTimeout that leaves the timer armed
clearTimeoutNoop(t) == t

\* clearTimeout(t)
clearTimeout(t) == IF t = "pending" THEN "cleared" ELSE t

NoResult == [exitCode |-> -1, stdout |-> <<>>, stderr |-> <<>>,
             timedOut |-> FALSE, durationMs |-> -1]

\* the exit code 'close' reports for a child that died by a signal (null)
NullCode == -1

\* the ExecResult built by the 'close' handler (exitCode: code ?? 1)
CloseResult(i, code) ==
    [exitCode |-> IF code = NullCode THEN 1 ELSE code,
     stdout |-> stripAnsi(stdout[i]),
     stderr |-> stripAnsi(stderr[i]),
     timedOut |-> timedOut[i],
     durationMs |-> elapsed[i]]

\* the 'error' handler reporting the captured stderr in place of err.message
ErrorResultCapturedStderr(i, message) ==
    [exitCode |-> 1,
     stdout |-> <<>>,
     stderr |-> stripAnsi(stderr[i]),
     timedOut |-> FALSE,
     durationMs |-> elapsed[i]]

\* the ExecResult built by the 'error' handler
ErrorResult(i, message) ==
    [exitCode |-> 1,
     stdout |-> <<>>,
     stderr |-> message,
     timedOut |-> FALSE,
     durationMs |-> elapsed[i]]

\* a promise that takes the value of the last resolve call
ResolveLastWins(i, r) ==
    /\ settled' = [settled EXCEPT ![i] = TRUE]
    /\ result' = [result EXCEPT ![i] = r]

\* resolve(r): only the first call settles the promise
Resolve(i, r) ==
    /\ settled' = [settled EXCEPT ![i] = TRUE]
    /\ result' = [result EXCEPT ![i] = IF settled[i] THEN result[i] ELSE r]

ExitCodes == {0, 2, NullCode}

Alive(i) == child[i] \in {"running", "dying"}

\* ---------------------------------------------------------------- adapters
Levels == {"none", "bestEffort", "enforced"}
BuiltIn == {"claude", "codex", "gemini", "amp"}

\* an argument that is a plain string
Tok(str) == [t |-> str, path |-> <<>>]
Toks(strs) == [k \in 1..Len(strs) |-> Tok(strs[k])]
\* `Read the file at ${path} and follow the instructions within it.`
Instruction(p) == [t |-> "Read the file at {} and follow the instructions within it.",
                   path |-> p]

\* Array.prototype.indexOf: the first index holding v, 0 when there is none
IndexOf(flags, v) ==
    IF \E k \in 1..Len(flags) : flags[k] = v
    THEN CHOOSE k \in 1..Len(flags) :
            flags[k] = v /\ \A j \in 1..(k - 1) : flags[j] # v
    ELSE 0

\* flags?.includes('deep') && flags[flags.indexOf('deep') - 1] === '-m'
IsDeep(flags) ==
    /\ IndexOf(flags, "deep") > 0
    /\ IndexOf(flags, "deep") > 1
    /\ flags[IndexOf(flags, "deep") - 1] = "-m"

\* resolveAdapter: toolConfig.adapter ?? id, a built-in family or the custom adapter
AdapterOf(id, cfg) ==
    LET baseId == IF cfg.adapter = "" THEN id ELSE cfg.adapter IN
    IF baseId \in BuiltIn THEN baseId ELSE "custom"

\* the static readOnly.level of each adapter
StaticLevel(family, cfg) ==
    CASE family = "claude" -> "enforced"
      [] family = "codex" -> "enforced"
      [] family = "gemini" -> "bestEffort"
      [] family = "amp" -> "enforced"
      [] OTHER -> cfg.level

\* getEffectiveReadOnlyLevel
EffectiveLevel(family, cfg) ==
    IF family = "amp" /\ IsDeep(cfg.extraFlags)
    THEN "bestEffort"
    ELSE StaticLevel(family, cfg)

ClaudeReadOnlyFlags ==
    <<"--tools", "Read,Glob,Grep,WebFetch,WebSearch",
      "--allowedTools", "Read,Glob,Grep,WebFetch,WebSearch",
      "--strict-mcp-config">>
CodexReadOnlyFlags == <<"--sandbox", "read-only">>
GeminiReadOnlyFlags ==
    <<"--extensions", "", "--allowed-tools", "read_file", "list_directory",
      "search_file_content", "glob", "google_web_search",
      "codebase_investigator">>
AmpSettingsFile(extraFlags) ==
    IF IsDeep(extraFlags) THEN "amp-deep-settings.json"
    ELSE "amp-readonly-settings.json"
AmpReadOnlyFlags(extraFlags) == <<"--settings-file", AmpSettingsFile(extraFlags)>>

\* the read-only flag set of an adapter for a request
ReadOnlyFlags(family, req, cfg) ==
    CASE family = "claude" -> ClaudeReadOnlyFlags
      [] family = "codex" -> CodexReadOnlyFlags
      [] family = "gemini" -> GeminiReadOnlyFlags
      [] family = "amp" -> AmpReadOnlyFlags(req.extraFlags)
      [] OTHER -> cfg.flags

\* sanitizePath: drops the control characters 0x00-0x08 and 0x0A-0x1F
\* ("n" stands for one of them, "t" for the tab that is kept)
IsNotControl(c) == c # "n"
sanitizePath(p) == SelectSeq(p, IsNotControl)

\* Claude's buildInvocation adding the read-only flags whatever the policy
ClaudeBuildInvocationAlways(req) ==
    [args |-> Toks(<<"-p", "--output-format", "text">>)
              \o Toks(req.extraFlags)
              \o Toks(ClaudeReadOnlyFlags)
              \o <<Instruction(req.promptFilePath)>>,
     stdin |-> FALSE]

ClaudeBuildInvocation(req) ==
    [args |-> Toks(<<"-p", "--output-format", "text">>)
              \o Toks(req.extraFlags)
              \o (IF req.readOnlyPolicy # "none" THEN Toks(ClaudeReadOnlyFlags)
                  ELSE <<>>)
              \o <<Instruction(req.promptFilePath)>>,
     stdin |-> FALSE]

CodexBuildInvocation(req) ==
    [args |-> Toks(<<"exec">>)
              \o (IF req.readOnlyPolicy # "none" THEN Toks(CodexReadOnlyFlags)
                  ELSE <<>>)
              \o Toks(<<"-c", "web_search=live", "--skip-git-repo-check">>)
              \o Toks(req.extraFlags)
              \o <<Instruction(sanitizePath(req.promptFilePath))>>,
     stdin |-> FALSE]

GeminiBuildInvocation(req) ==
    [args |-> Toks(<<"-p", "">>)
              \o Toks(req.extraFlags)
              \o (IF req.readOnlyPolicy # "none" THEN Toks(GeminiReadOnlyFlags)
                  ELSE <<>>)
              \o Toks(<<"--output-format", "text">>),
     stdin |-> TRUE]

\* existsSync(settingsFile) is the argument settingsExists
AmpBuildInvocation(req, settingsExists) ==
    [args |-> Toks(<<"-x">>)
              \o Toks(req.extraFlags)
              \o (IF req.readOnlyPolicy # "none" /\ settingsExists
                  THEN Toks(AmpReadOnlyFlags(req.extraFlags))
                  ELSE <<>>),
     stdin |-> TRUE]

CustomBuildInvocation(req, cfg) ==
    [args |-> Toks(req.extraFlags)
              \o (IF req.readOnlyPolicy # "none" THEN Toks(cfg.flags) ELSE <<>>)
              \o (IF cfg.stdin THEN <<>>
                  ELSE <<Instruction(req.promptFilePath)>>),
     stdin |-> cfg.stdin]

BuildInvocation(family, req, cfg, settingsExists) ==
    CASE family = "claude" -> ClaudeBuildInvocation(req)
      [] family = "codex" -> CodexBuildInvocation(req)
      [] family = "gemini" -> GeminiBuildInvocation(req)
      [] family = "amp" -> AmpBuildInvocation(req, settingsExists)
      [] OTHER -> CustomBuildInvocation(req, cfg)

\* ---------------------------------------------------------------- execute
\* The synchronous body of execute(): spawn, register the child, arm the timer.
\* `spawned` is what spawn() comes to: "failing" (the binary cannot be started),
\* "killable", or "unkillable" (a child the parent may not signal: kill() fails)
SpawnOutcomes == {"failing", "killable", "unkillable"}

ExecuteBody(i, ms, spawned) ==
    /\ child[i] = "none"
    /\ child' = [child EXCEPT ![i] = IF spawned = "failing" THEN "failing"
                                     ELSE "running"]
    /\ killable' = [killable EXCEPT ![i] = spawned # "unkillable"]
    /\ timeoutMs' = [timeoutMs EXCEPT ![i] = ms]
    /\ timer' = [timer EXCEPT ![i] = "pending"]
    /\ activeChildren' = activeChildren \cup {i}
    /\ UNCHANGED <<elapsed, stdout, stderr, truncated, timedOut, killed,
                   killTimer, killAt, closeBy, settled, result, signals, sigAt,
                   emittedOut, emittedErr, chunksOut, chunksErr>>

\* execute(invocation, timeoutMs) called directly
CallExecute ==
    /\ mode = "direct"
    /\ \E ms \in 1..MaxTimeout, spawned \in SpawnOutcomes :
          ExecuteBody(1, ms, spawned)
    /\ UNCHANGED <<mode, dispVars, adVars>>

\* child.stdout 'data'
ChildStdout(i) ==
    /\ Alive(i)
    /\ chunksOut[i] < MaxChunks
    /\ \E data \in Chunks :
          LET r == StdoutOnData(stdout[i], truncated[i], data) IN
          /\ stdout' = [stdout EXCEPT ![i] = r.stdout]
          /\ truncated' = [truncated EXCEPT ![i] = r.truncated]
          /\ emittedOut' = [emittedOut EXCEPT ![i] = @ + Len(data)]
    /\ chunksOut' = [chunksOut EXCEPT ![i] = @ + 1]
    /\ UNCHANGED <<mode, dispVars, adVars, child, killable, timeoutMs, elapsed, stderr, timedOut,
                   killed, timer, killTimer, killAt, closeBy, settled, result,
                   signals, sigAt, emittedErr, chunksErr, activeChildren>>

\* child.stderr 'data'
ChildStderr(i) ==
    /\ Alive(i)
    /\ chunksErr[i] < MaxChunks
    /\ \E data \in Chunks :
          /\ stderr' = [stderr EXCEPT ![i] = StderrOnData(stderr[i], data)]
          /\ emittedErr' = [emittedErr EXCEPT ![i] = @ + Len(data)]
    /\ chunksErr' = [chunksErr EXCEPT ![i] = @ + 1]
    /\ UNCHANGED <<mode, dispVars, adVars, child, killable, timeoutMs, elapsed, stdout, truncated,
                   timedOut, killed, timer, killTimer, killAt, closeBy, settled,
                   result, signals, sigAt, emittedOut, chunksOut,
                   activeChildren>>

\* Under dispatch the clock is abstracted away: a pending timer may fire at any
\* moment.  Called directly, execute runs against the discrete clock.
Timed == mode \in {"direct", "interrupt"}
TimerDue(i) == Timed => elapsed[i] >= timeoutMs[i]
KillTimerDue(i) == Timed => elapsed[i] >= killAt[i]

\* the outer timer's callback: timedOut = true; child.kill('SIGTERM'); arm killTimer.
\* A kill() that fails emits 'error' synchronously, so the 'error' handler runs
\* inside the callback, before killTimer is assigned.
TimerFire(i) ==
    /\ timer[i] = "pending"
    /\ child[i] # "failing"
    /\ TimerDue(i)
    /\ timer' = [timer EXCEPT ![i] = "fired"]
    /\ timedOut' = [timedOut EXCEPT ![i] = TRUE]
    /\ signals' = [signals EXCEPT ![i] = Append(@, "SIGTERM")]
    /\ sigAt' = [sigAt EXCEPT ![i] = Append(@, elapsed[i])]
    /\ IF Alive(i) /\ ~killable[i]
       THEN /\ killed' = [killed EXCEPT ![i] = TRUE]
            /\ activeChildren' = activeChildren \ {i}
            /\ Resolve(i, ErrorResult(i, KillErrorMessage))
       ELSE UNCHANGED <<killed, activeChildren, settled, result>>
    /\ killTimer' = [killTimer EXCEPT ![i] = "pending"]
    /\ killAt' = [killAt EXCEPT ![i] = elapsed[i] + KILL_GRACE_PERIOD]
    /\ UNCHANGED <<mode, dispVars, adVars, child, killable, timeoutMs, elapsed, stdout, stderr,
                   truncated, closeBy, emittedOut, emittedErr, chunksOut,
                   chunksErr>>

\* the inner timer's guard inverted
ShouldSigkillInverted(i) == killed[i]

\* the condition guarding child.kill('SIGKILL')
ShouldSigkill(i) == ~killed[i]

\* the inner timer's callback
KillTimerFire(i) ==
    /\ killTimer[i] = "pending"
    /\ KillTimerDue(i)
    /\ killTimer' = [killTimer EXCEPT ![i] = "fired"]
    /\ IF ShouldSigkill(i)
       THEN /\ signals' = [signals EXCEPT ![i] = Append(@, "SIGKILL")]
            /\ sigAt' = [sigAt EXCEPT ![i] = Append(@, elapsed[i])]
            /\ IF Alive(i)
               THEN /\ child' = [child EXCEPT ![i] = "dying"]
                    /\ closeBy' = [closeBy EXCEPT ![i] = elapsed[i] + KillLatency]
               ELSE UNCHANGED <<child, closeBy>>
       ELSE UNCHANGED <<signals, sigAt, child, closeBy>>
    /\ UNCHANGED <<mode, dispVars, adVars, killable, timeoutMs, elapsed, stdout, stderr, truncated,
                   timedOut, killed, timer, killAt, settled, result, emittedOut,
                   emittedErr, chunksOut, chunksErr, activeChildren>>

\* child 'close': the process has exited and its streams have ended.  (The
\* 'close' that follows a failed spawn finds the promise settled and both timers
\* cleared and changes nothing; it is not modelled.)
ChildClose(i) ==
    /\ child[i] \in {"running", "dying"}
    /\ \E code \in ExitCodes :
          /\ child[i] = "dying" => code = NullCode
          /\ Resolve(i, CloseResult(i, code))
    /\ child' = [child EXCEPT ![i] = "closed"]
    /\ killed' = [killed EXCEPT ![i] = TRUE]
    /\ timer' = [timer EXCEPT ![i] = clearTimeout(timer[i])]
    /\ killTimer' = [killTimer EXCEPT ![i] = clearTimeout(killTimer[i])]
    /\ activeChildren' = activeChildren \ {i}
    /\ UNCHANGED <<mode, dispVars, adVars, killable, timeoutMs, elapsed, stdout, stderr, truncated,
                   timedOut, killAt, closeBy, signals, sigAt, emittedOut,
                   emittedErr, chunksOut, chunksErr>>

\* child 'error' after a failed spawn (emitted on the next tick)
SpawnError(i) ==
    /\ child[i] = "failing"
    /\ child' = [child EXCEPT ![i] = "errored"]
    /\ killed' = [killed EXCEPT ![i] = TRUE]
    /\ timer' = [timer EXCEPT ![i] = clearTimeout(timer[i])]
    /\ killTimer' = [killTimer EXCEPT ![i] = clearTimeout(killTimer[i])]
    /\ activeChildren' = activeChildren \ {i}
    /\ Resolve(i, ErrorResult(i, SpawnErrorMessage))
    /\ UNCHANGED <<mode, dispVars, adVars, killable, timeoutMs, elapsed, stdout, stderr, truncated,
                   timedOut, killAt, closeBy, signals, sigAt, emittedOut,
                   emittedErr, chunksOut, chunksErr>>

\* ------------------------------------------------------------------- clock
Counting(i) ==
    /\ child[i] # "none"
    /\ ~settled[i] \/ timer[i] = "pending" \/ killTimer[i] = "pending"

MaxElapsed == MaxTimeout + KILL_GRACE_PERIOD + KillLatency + 1

\* something that must happen before the clock advances
Urgent(i) ==
    \/ child[i] = "failing"
    \/ timer[i] = "pending" /\ elapsed[i] >= timeoutMs[i]
    \/ killTimer[i] = "pending" /\ elapsed[i] >= killAt[i]
    \/ child[i] = "dying" /\ elapsed[i] >= closeBy[i]

Tick ==
    /\ Timed
    /\ \E i \in Slots : Counting(i)
    /\ \A i \in Slots : ~Urgent(i)
    /\ \A i \in Slots : Counting(i) => elapsed[i] < MaxElapsed
    /\ elapsed' = [i \in Slots |-> IF Counting(i) THEN elapsed[i] + 1
                                   ELSE elapsed[i]]
    /\ UNCHANGED <<mode, dispVars, adVars, child, killable, timeoutMs, stdout, stderr, truncated,
                   timedOut, killed, timer, killTimer, killAt, closeBy, settled,
                   result, signals, sigAt, emittedOut, emittedErr, chunksOut,
                   chunksErr, activeChildren>>

\* ---------------------------------------------------------------- dispatch
ToolIds == {"amp", "a/b", "ghost"}

\* the characters of each tool id
Chars(id) ==
    CASE id = "claude" -> <<"c", "l", "a", "u", "d", "e">>
      [] id = "amp" -> <<"a", "m", "p">>
      [] id = "a/b" -> <<"a", "/", "b">>
      [] id = "a_b" -> <<"a", "_", "b">>
      [] id = "../evil" -> <<".", ".", "/", "e", "v", "i", "l">>
      [] OTHER -> <<"g", "h", "o", "s", "t">>

\* [a-zA-Z0-9._-]
SafeChars ==
    {"a", "b", "c", "d", "e", "f", "g", "h", "i", "j", "k", "l", "m", "n", "o",
     "p", "q", "r", "s", "t", "u", "v", "w", "x", "y", "z",
     "A", "B", "C", "D", "E", "F", "G", "H", "I", "J", "K", "L", "M", "N", "O",
     "P", "Q", "R", "S", "T", "U", "V", "W", "X", "Y", "Z",
     "0", "1", "2", "3", "4", "5", "6", "7", "8", "9", ".", "_", "-"}

\* a sanitizeId that replaces nothing
sanitizeIdNone(cs) == cs

\* id.replace(/[^a-zA-Z0-9._-]/g, '_')
sanitizeId(cs) == [k \in 1..Len(cs) |-> IF cs[k] \in SafeChars THEN cs[k] ELSE "_"]

\* timeout: undefined
NoTimeout == -1

NotConfigured ==
    [configured |-> FALSE, adapter |-> "", level |-> "none", flags |-> <<>>,
     extraFlags |-> <<>>, timeout |-> NoTimeout, stdin |-> FALSE]

ToolCfg(adp, lvl, extra, tmo) ==
    [configured |-> TRUE, adapter |-> adp, level |-> lvl, flags |-> <<>>,
     extraFlags |-> extra, timeout |-> tmo, stdin |-> FALSE]

\* the tool configurations a config file may hold for each id
ToolChoices(id) ==
    CASE id = "amp" -> {ToolCfg("", "enforced", <<"-m", "smart">>, NoTimeout),
                        ToolCfg("", "enforced", <<"-m", "deep">>, NoTimeout)}
      [] id = "a/b" -> {ToolCfg("", "enforced", <<>>, 1),
                        ToolCfg("", "none", <<>>, 1),
                        ToolCfg("gemini", "enforced", <<>>, 1)}
      [] OTHER -> {NotConfigured}

\* the first configuration of an id
DefaultChoice(id) ==
    CHOOSE c \in ToolChoices(id) :
       \/ ~c.configured
       \/ c.adapter = "" /\ c.level = "enforced" /\ ~IsDeep(c.extraFlags)

\* config.tools: one configuration per id
ConfigChoices ==
    {tools \in [ToolIds -> UNION {ToolChoices(id) : id \in ToolIds}] :
        \A id \in ToolIds : tools[id] \in ToolChoices(id)}

MaxParallel == 2

\* sequences over S of length at most n
SeqUpTo(S, n) == UNION {[1..k -> S] : k \in 0..n}

ToolConfigOf(id) == config.tools[id]

\* the filter callback looking at the adapter's static level only
IsEligibleStaticLevel(id) ==
    IF ~ToolConfigOf(id).configured
    THEN FALSE
    ELSE IF readOnlyPolicy = "enforced"
         THEN StaticLevel(AdapterOf(id, ToolConfigOf(id)), ToolConfigOf(id))
                 = "enforced"
         ELSE TRUE

\* the body of the eligibleTools filter callback
IsEligible(id) ==
    IF ~ToolConfigOf(id).configured
    THEN FALSE
    ELSE IF readOnlyPolicy = "enforced"
         THEN EffectiveLevel(AdapterOf(id, ToolConfigOf(id)), ToolConfigOf(id))
                 = "enforced"
         ELSE TRUE

\* the warnings the filter logs
WarningsOf(ids) ==
    {[id |-> ids[k], level |-> "notConfigured"] :
        k \in {j \in 1..Len(ids) : ~ToolConfigOf(ids[j]).configured}}
    \cup
    {[id |-> ids[k],
      level |-> EffectiveLevel(AdapterOf(ids[k], ToolConfigOf(ids[k])),
                               ToolConfigOf(ids[k]))] :
        k \in {j \in 1..Len(ids) : ToolConfigOf(ids[j]).configured
                                   /\ ~IsEligible(ids[j])}}

\* a fail-fast test that never fires
FailFastNever(eligible) == Len(eligible) < 0

\* eligibleTools.length === 0
FailFast(eligible) == Len(eligible) = 0

NoEligibleTools == "No eligible tools after read-only policy filtering."

Running == {"usageBefore", "executing", "usageAfter"}
Done == {"fulfilled", "rejected"}
Tasks == 1..Len(eligibleTools)

\* p-limit's activeCount
ActiveCount == Cardinality({i \in Slots : task[i] \in Running})

\* a limiter that admits one task too many
LimiterOffByOne == ActiveCount <= config.maxParallel

\* a limiter that never gives a finished task's slot back
LimiterNeverReleases ==
    Cardinality({i \in Slots : task[i] \in Running \cup Done}) < config.maxParallel

\* p-limit starts a queued function only while activeCount < concurrency
LimiterHasSlot == ActiveCount < config.maxParallel

\* (toolConfig.adapter ?? id) === 'amp'
IsAmp(i) ==
    LET id == eligibleTools[i] IN
    (IF ToolConfigOf(id).adapter = "" THEN id ELSE ToolConfigOf(id).adapter) = "amp"

\* toolConfig.timeout ?? config.defaults.timeout
ToolTimeout(i) ==
    LET t == ToolConfigOf(eligibleTools[i]).timeout IN
    IF t = NoTimeout THEN config.timeout ELSE t

\* join(outputDir, `${safeId}${ext}`)
OutputPath(i, ext) ==
    [dir |-> "outputDir", name |-> sanitizeId(Chars(eligibleTools[i])), ext |-> ext]

IsNotSpace(c) == c # "s"

RECURSIVE CountTokens(_, _)
\* the number of maximal runs of non-whitespace characters of s from position k
CountTokens(s, k) ==
    IF k > Len(s) THEN 0
    ELSE (IF IsNotSpace(s[k]) /\ (k = 1 \/ ~IsNotSpace(s[k - 1])) THEN 1 ELSE 0)
         + CountTokens(s, k + 1)

\* stdout.split(/\s+/).filter(Boolean).length
WordCount(s) == CountTokens(s, 1)

\* timedOut ? 'timeout' : exitCode === 0 ? 'success' : 'error'
StatusOf(r) ==
    IF r.timedOut THEN "timeout" ELSE IF r.exitCode = 0 THEN "success" ELSE "error"

\* stderr.slice(0, 500), scaled
ErrorExcerptLength == 3

NoError == [set |-> FALSE, text |-> <<>>]

NoReport ==
    [toolId |-> "", status |-> "", exitCode |-> -1, durationMs |-> -1,
     wordCount |-> -1, outputFile |-> "", stderrFile |-> "", cost |-> FALSE,
     error |-> NoError]

\* BaseAdapter.parseResult keeping the exit code only: a timed-out run reads as error
parseResultExitCodeOnly(r) ==
    [status |-> IF r.exitCode = 0 THEN "success" ELSE "error",
     exitCode |-> r.exitCode,
     durationMs |-> r.durationMs,
     wordCount |-> WordCount(r.stdout)]

\* BaseAdapter.parseResult, which every adapter inherits (Amp's override spreads it)
parseResult(r) ==
    [status |-> IF r.timedOut THEN "timeout"
                ELSE IF r.exitCode = 0 THEN "success" ELSE "error",
     exitCode |-> r.exitCode,
     durationMs |-> r.durationMs,
     wordCount |-> WordCount(r.stdout)]

\* the dispatcher's own derivation of the report, before parseResult is merged
DefaultReport(id, r, hasCost) ==
    [toolId |-> id,
     status |-> StatusOf(r),
     exitCode |-> r.exitCode,
     durationMs |-> r.durationMs,
     wordCount |-> WordCount(r.stdout),
     outputFile |-> ".md",
     stderrFile |-> ".stderr",
     cost |-> hasCost,
     error |-> IF r.exitCode # 0
               THEN [set |-> TRUE, text |-> Slice(r.stderr, ErrorExcerptLength)]
               ELSE NoError]

\* { ...default, ...parsed }: the fields of parsed replace the default's
MergeParsed(base, parsed) ==
    [f \in DOMAIN base |->
        IF f \in DOMAIN parsed THEN parsed[f] ELSE base[f]]

\* the report a task builds from its ExecResult, adapter.parseResult merged over it
TaskReport(i, r, hasCost) ==
    MergeParsed(DefaultReport(eligibleTools[i], r, hasCost), parseResult(r))

ThrownMessage == <<"E", "E", "E">>

\* the report built for a rejected task
SyntheticReport(i) ==
    [toolId |-> eligibleTools[i], status |-> "error", exitCode |-> 1,
     durationMs |-> 0, wordCount |-> 0, outputFile |-> "", stderrFile |-> "",
     cost |-> FALSE, error |-> [set |-> TRUE, text |-> ThrownMessage]]

\* Promise.all in place of Promise.allSettled: settles on the first rejection
AllOrFirstRejected ==
    \/ \E i \in Tasks : task[i] = "rejected"
    \/ \A i \in Tasks : task[i] \in Done

\* Promise.allSettled(tasks) has settled
AllSettled == \A i \in Tasks : task[i] \in Done

IsReport(r) == r # NoReport
\* a reduction that keeps the fulfilled tasks' reports only
ReduceFulfilledOnly ==
    SelectSeq([i \in Tasks |-> IF task[i] = "fulfilled" THEN report[i] ELSE NoReport],
              IsReport)

\* results.map(...)
ReduceResults ==
    [i \in Tasks |-> IF task[i] = "fulfilled" THEN report[i] ELSE SyntheticReport(i)]

\* dispatch(options) up to the creation of the limited tasks
DispatchCall ==
    /\ mode = "dispatch"
    /\ dpc = "called"
    /\ LET eligible == SelectSeq(toolIds, IsEligible) IN
       /\ eligibleTools' = eligible
       /\ warnings' = WarningsOf(toolIds)
       /\ IF FailFast(eligible)
          THEN /\ dpc' = "rejected"
               /\ dispatchError' = NoEligibleTools
               /\ UNCHANGED task
          ELSE /\ dpc' = "running"
               /\ task' = [i \in Slots |-> IF i <= Len(eligible) THEN "queued"
                                           ELSE "unused"]
               /\ UNCHANGED dispatchError
    /\ UNCHANGED <<mode, execVars, adVars, toolIds, readOnlyPolicy, config,
                   usageBefore, thrown, report, results, events, files>>

\* debug; onProgress 'started'; execute(invocation, toolTimeoutMs)
BeginRun(i) ==
    /\ events' = [events EXCEPT ![i] =
                     Append(@, [toolId |-> eligibleTools[i], event |-> "started"])]
    /\ \E cbThrows \in BOOLEAN :
          IF cbThrows
          THEN /\ task' = [task EXCEPT ![i] = "rejected"]
               /\ thrown' = [thrown EXCEPT ![i] = "onProgress"]
               /\ UNCHANGED execVars
          ELSE /\ task' = [task EXCEPT ![i] = "executing"]
               /\ UNCHANGED thrown
               /\ \E spawned \in SpawnOutcomes :
                     ExecuteBody(i, ToolTimeout(i), spawned)

\* the limiter starts task i: resolveAdapter, RunRequest, buildInvocation, then
\* either the first usage snapshot (amp) or the run itself
TaskStart(i) ==
    /\ dpc = "running"
    /\ i \in Tasks
    /\ task[i] = "queued"
    /\ \A j \in 1..(i - 1) : task[j] # "queued"
    /\ LimiterHasSlot
    /\ \E buildThrows \in BOOLEAN :
          IF buildThrows
          THEN /\ task' = [task EXCEPT ![i] = "rejected"]
               /\ thrown' = [thrown EXCEPT ![i] = "buildInvocation"]
               /\ UNCHANGED <<events, execVars>>
          ELSE IF IsAmp(i)
               THEN /\ task' = [task EXCEPT ![i] = "usageBefore"]
                    /\ UNCHANGED <<thrown, events, execVars>>
               ELSE BeginRun(i)
    /\ UNCHANGED <<mode, adVars, toolIds, readOnlyPolicy, config, dpc,
                   dispatchError, eligibleTools, usageBefore, report, results,
                   files, warnings>>

\* await captureAmpUsage() before the run: a snapshot or null
UsageBeforeDone(i) ==
    /\ task[i] = "usageBefore"
    /\ \E captured \in BOOLEAN :
          usageBefore' = [usageBefore EXCEPT ![i] = captured]
    /\ BeginRun(i)
    /\ UNCHANGED <<mode, adVars, toolIds, readOnlyPolicy, config, dpc,
                   dispatchError, eligibleTools, report, results, files,
                   warnings>>

\* the rest of the task once both snapshots are in: write the files, build the
\* report, onProgress 'completed', return
Finish(i, hasCost) ==
    \E failAt \in {"none", ".md", ".stderr", ".stats.json", "onProgress"} :
       /\ failAt = ".stats.json" => hasCost
       /\ files' = files \cup
             {[path |-> OutputPath(i, ext), by |-> i] :
                 ext \in CASE failAt = ".md" -> {}
                           [] failAt = ".stderr" -> {".md"}
                           [] failAt = ".stats.json" -> {".md", ".stderr"}
                           [] OTHER -> {".md", ".stderr"} \cup
                                       (IF hasCost THEN {".stats.json"} ELSE {})}
       /\ events' = [events EXCEPT ![i] =
                        IF failAt \in {"none", "onProgress"}
                        THEN Append(@, [toolId |-> eligibleTools[i],
                                        event |-> "completed",
                                        report |-> TaskReport(i, result[i], hasCost)])
                        ELSE @]
       /\ IF failAt = "none"
          THEN /\ task' = [task EXCEPT ![i] = "fulfilled"]
               /\ report' = [report EXCEPT ![i] = TaskReport(i, result[i], hasCost)]
               /\ UNCHANGED thrown
          ELSE /\ task' = [task EXCEPT ![i] = "rejected"]
               /\ thrown' = [thrown EXCEPT ![i] =
                                IF failAt = "onProgress" THEN "onProgress"
                                ELSE "safeWriteFile"]
               /\ UNCHANGED report

\* the task resumes after await execute(...)
TaskResume(i) ==
    /\ task[i] = "executing"
    /\ settled[i]
    /\ IF IsAmp(i)
       THEN /\ task' = [task EXCEPT ![i] = "usageAfter"]
            /\ UNCHANGED <<thrown, report, events, files>>
       ELSE Finish(i, FALSE)
    /\ UNCHANGED <<mode, execVars, adVars, toolIds, readOnlyPolicy, config, dpc,
                   dispatchError, eligibleTools, usageBefore, results, warnings>>

\* await captureAmpUsage() after the run; cost only when both snapshots exist
UsageAfterDone(i) ==
    /\ task[i] = "usageAfter"
    /\ \E captured \in BOOLEAN : Finish(i, usageBefore[i] /\ captured)
    /\ UNCHANGED <<mode, execVars, adVars, toolIds, readOnlyPolicy, config, dpc,
                   dispatchError, eligibleTools, usageBefore, results, warnings>>

\* await Promise.allSettled(tasks); return results.map(...)
DispatchReturn ==
    /\ dpc = "running"
    /\ AllSettled
    /\ results' = ReduceResults
    /\ dpc' = "returned"
    /\ UNCHANGED <<mode, execVars, adVars, toolIds, readOnlyPolicy, config,
                   dispatchError, eligibleTools, task, usageBefore, thrown,
                   report, events, files, warnings>>

\* ------------------------------------------------------------------- specs
InitExecVars ==
    /\ child = [i \in Slots |-> "none"]
    /\ killable = [i \in Slots |-> TRUE]
    /\ timeoutMs = [i \in Slots |-> 0]
    /\ elapsed = [i \in Slots |-> 0]
    /\ stdout = [i \in Slots |-> <<>>]
    /\ stderr = [i \in Slots |-> <<>>]
    /\ truncated = [i \in Slots |-> FALSE]
    /\ timedOut = [i \in Slots |-> FALSE]
    /\ killed = [i \in Slots |-> FALSE]
    /\ timer = [i \in Slots |-> "none"]
    /\ killTimer = [i \in Slots |-> "none"]
    /\ killAt = [i \in Slots |-> 0]
    /\ closeBy = [i \in Slots |-> 0]
    /\ settled = [i \in Slots |-> FALSE]
    /\ result = [i \in Slots |-> NoResult]
    /\ signals = [i \in Slots |-> <<>>]
    /\ sigAt = [i \in Slots |-> <<>>]
    /\ emittedOut = [i \in Slots |-> 0]
    /\ emittedErr = [i \in Slots |-> 0]
    /\ chunksOut = [i \in Slots |-> 0]
    /\ chunksErr = [i \in Slots |-> 0]
    /\ activeChildren = {}

InitDispIdle ==
    /\ toolIds = <<>>
    /\ readOnlyPolicy = "none"
    /\ config = [maxParallel |-> 1, timeout |-> 1,
                 tools |-> [id \in ToolIds |-> NotConfigured]]
    /\ dpc = "idle"
    /\ dispatchError = ""
    /\ eligibleTools = <<>>
    /\ task = [i \in Slots |-> "unused"]
    /\ usageBefore = [i \in Slots |-> FALSE]
    /\ thrown = [i \in Slots |-> "none"]
    /\ report = [i \in Slots |-> NoReport]
    /\ results = <<>>
    /\ events = [i \in Slots |-> <<>>]
    /\ files = {}
    /\ warnings = {}

InitFnIdle ==
    /\ fnIn = [fn |-> "none"]
    /\ fnOut = [called |-> FALSE]

\* the parent process before any SIGINT
IdleProcess ==
    [now |-> 0, sigintAt |-> <<>>, sigterm |-> {}, exitTimers |-> {},
     exited |-> FALSE, exitedAt |-> 0]

InitAdIdle ==
    /\ process = IdleProcess
    /\ adIn = [family |-> "none", readOnlyPolicy |-> "none", extraFlags |-> <<>>,
               promptFilePath |-> <<>>, flags |-> <<>>, stdin |-> FALSE,
               settingsExists |-> FALSE]
    /\ adOut = [called |-> FALSE, args |-> <<>>, stdin |-> FALSE]

\* execute() called by itself, as the executor's tests do
InitExec ==
    /\ mode = "direct"
    /\ InitExecVars
    /\ InitDispIdle
    /\ InitAdIdle
    /\ InitFnIdle

NextExec ==
    \/ CallExecute
    \/ \E i \in Slots : ChildStdout(i)
    \/ \E i \in Slots : ChildStderr(i)
    \/ \E i \in Slots : TimerFire(i)
    \/ \E i \in Slots : KillTimerFire(i)
    \/ \E i \in Slots : ChildClose(i)
    \/ \E i \in Slots : SpawnError(i)
    \/ Tick

SpecExec == InitExec /\ [][NextExec]_vars

\* dispatch(options) called with options drawn from the bounded sets
Init ==
    /\ mode = "dispatch"
    /\ InitExecVars
    /\ InitAdIdle
    /\ InitFnIdle
    /\ toolIds \in SeqUpTo(ToolIds, MaxTools)
    /\ readOnlyPolicy \in Levels
    /\ \E mp \in 1..MaxParallel, tools \in ConfigChoices :
          \* the entry of a tool that is not requested is never read
          /\ \A id \in ToolIds :
                (\A k \in 1..Len(toolIds) : toolIds[k] # id) => tools[id] = DefaultChoice(id)
          /\ config = [maxParallel |-> mp, timeout |-> MaxTimeout, tools |-> tools]
    /\ dpc = "called"
    /\ dispatchError = ""
    /\ eligibleTools = <<>>
    /\ task = [i \in Slots |-> "unused"]
    /\ usageBefore = [i \in Slots |-> FALSE]
    /\ thrown = [i \in Slots |-> "none"]
    /\ report = [i \in Slots |-> NoReport]
    /\ results = <<>>
    /\ events = [i \in Slots |-> <<>>]
    /\ files = {}
    /\ warnings = {}

Next ==
    \/ DispatchCall
    \/ \E i \in Slots : TaskStart(i)
    \/ \E i \in Slots : UsageBeforeDone(i)
    \/ \E i \in Slots : TimerFire(i)
    \/ \E i \in Slots : KillTimerFire(i)
    \/ \E i \in Slots : ChildClose(i)
    \/ \E i \in Slots : SpawnError(i)
    \/ \E i \in Slots : TaskResume(i)
    \/ \E i \in Slots : UsageAfterDone(i)
    \/ DispatchReturn

Spec == Init /\ [][Next]_vars


\* ------------------------------------------- buildInvocation called by itself
ExtraFlagChoices ==
    { <<>>, <<"-m", "deep">>, <<"-m", "smart">>, <<"deep", "-m", "deep">>,
      <<"--sandbox", "read-only">>,
      <<"--settings-file", "amp-readonly-settings.json">> }
CustomFlagChoices == { <<>>, <<"--read-only">> }
PathChoices == { <<"p">>, <<"p", "n", "q">>, <<"p", "t", "q">> }

AdapterInputs ==
    [family : BuiltIn \cup {"custom"},
     readOnlyPolicy : Levels,
     extraFlags : ExtraFlagChoices,
     promptFilePath : PathChoices,
     flags : CustomFlagChoices,
     stdin : BOOLEAN,
     settingsExists : BOOLEAN]

\* the RunRequest and the custom tool's ToolConfig of an input
ReqOf(in) ==
    [readOnlyPolicy |-> in.readOnlyPolicy, extraFlags |-> in.extraFlags,
     promptFilePath |-> in.promptFilePath]
CfgOf(in) ==
    [configured |-> TRUE, adapter |-> "", level |-> "bestEffort",
     flags |-> in.flags, extraFlags |-> in.extraFlags, timeout |-> NoTimeout,
     stdin |-> in.stdin]

InitAdapter ==
    /\ mode = "adapter"
    /\ InitExecVars
    /\ InitDispIdle
    /\ adIn \in AdapterInputs
    /\ adOut = [called |-> FALSE, args |-> <<>>, stdin |-> FALSE]
    /\ InitFnIdle
    /\ process = IdleProcess

\* adapter.buildInvocation(req)
CallBuildInvocation ==
    /\ mode = "adapter"
    /\ ~adOut.called
    /\ LET inv == BuildInvocation(adIn.family, ReqOf(adIn), CfgOf(adIn),
                                  adIn.settingsExists) IN
       adOut' = [called |-> TRUE, args |-> inv.args, stdin |-> inv.stdin]
    /\ UNCHANGED <<mode, execVars, dispVars, adIn, fnIn, fnOut, process>>

NextAdapter == CallBuildInvocation

SpecAdapter == InitAdapter /\ [][NextAdapter]_vars


\* ==================================================== properties of dispatch

\* what the filter is required to keep: a configured tool, and under policy
\* enforced only one whose effective level is enforced
Survives(id) ==
    /\ config.tools[id].configured
    /\ \/ readOnlyPolicy # "enforced"
       \/ EffectiveLevel(AdapterOf(id, config.tools[id]), config.tools[id])
             = "enforced"

\* C1: once dispatch has filtered, the eligible list is the requested list
\* restricted to the configured tools with p # enforced or L = enforced (in the
\* requested order), and a child is only ever spawned for a tool of that list;
\* nothing is spawned before the filter has run.
C1_EligibilityFilter ==
    /\ dpc = "called" => \A i \in Slots : child[i] = "none"
    /\ dpc \notin {"called", "idle"} =>
          /\ eligibleTools = SelectSeq(toolIds, Survives)
          /\ \A i \in Slots :
                child[i] # "none" => i \in Tasks /\ Survives(eligibleTools[i])

\* under policy enforced an Amp tool configured with '-m deep' was requested and
\* dropped, while another requested tool was spawned
C1_Witness ==
    /\ mode = "dispatch"
    /\ readOnlyPolicy = "enforced"
    /\ toolIds = <<"amp", "a/b">>
    /\ IsDeep(config.tools["amp"].extraFlags)
    /\ eligibleTools = <<"a/b">>
    /\ child[1] # "none"

\* C2: whenever dispatch returns, the result list is as long as the eligible
\* list, its i-th report carries the i-th eligible tool's id, and the report of
\* a task that threw has status error.
C2_OneReportPerTool ==
    dpc = "returned" =>
       /\ Len(results) = Len(eligibleTools)
       /\ \A i \in 1..Len(results) :
             /\ results[i].toolId = eligibleTools[i]
             /\ thrown[i] # "none" => results[i].status = "error"

\* two eligible tools: the first task threw in a file write, the second returned
C2_Witness ==
    /\ dpc = "returned"
    /\ Len(eligibleTools) = 2
    /\ thrown[1] = "safeWriteFile"
    /\ thrown[2] = "none"
    /\ results[1].status = "error"
    /\ results[2].status = "success"

\* C3: when dispatch returns, every task that did not itself throw has been
\* executed to the end and its report is the one derived from its own
\* ExecResult, whatever became of the other tasks (thrown, failed to spawn,
\* timed out).
C3_TaskIsolation ==
    dpc = "returned" =>
       \A i \in Tasks :
          /\ task[i] \in Done
          /\ thrown[i] \notin {"none", "buildInvocation"} =>
                Len(events[i]) >= 1 /\ events[i][1].event = "started"
          /\ thrown[i] = "none" =>
                /\ task[i] = "fulfilled"
                /\ child[i] # "none"
                /\ settled[i]
                /\ results[i].toolId = eligibleTools[i]
                /\ results[i].exitCode = result[i].exitCode
                /\ results[i].durationMs = result[i].durationMs
                /\ results[i].status = "timeout" <=> result[i].timedOut
                /\ results[i].status = "success" <=>
                      (~result[i].timedOut /\ result[i].exitCode = 0)

\* the first task threw before its tool ran and the second tool timed out, or
\* the other way round; both reports are returned
C3_Witness ==
    /\ dpc = "returned"
    /\ Len(eligibleTools) = 2
    /\ thrown[1] = "buildInvocation"
    /\ thrown[2] = "none"
    /\ results[1].status = "error"
    /\ results[2].status = "timeout"
    /\ config.maxParallel = 2

C5_BoundedParallelism ==
    /\ ActiveCount <= config.maxParallel
    /\ Cardinality({i \in Slots : task[i] \in Running
                                   /\ child[i] \in {"failing", "running", "dying"}})
          <= config.maxParallel
    /\ Cardinality({i \in Slots : task[i] \notin {"unused", "queued"}}
                   \ {i \in Slots : task[i] \in Done})
          <= config.maxParallel

\* maxParallel 1 and two eligible tools: the second task runs, the first is over
C5_Witness ==
    /\ mode = "dispatch"
    /\ config.maxParallel = 1
    /\ Len(eligibleTools) = 2
    /\ task[1] \in Done
    /\ task[2] = "executing"
    /\ child[2] = "running"

\* ============================================= properties of buildInvocation

\* toks occurs in args as a run of consecutive arguments
ContainsRun(args, toks) ==
    \E k \in 0..(Len(args) - Len(toks)) :
       \A j \in 1..Len(toks) : args[k + j] = toks[j]

\* the read-only flag set of the adapter called
FlagSetOfCall ==
    Toks(ReadOnlyFlags(adIn.family, ReqOf(adIn), CfgOf(adIn)))

\* C6 as stated: buildInvocation puts the adapter's read-only flag set into
\* the argument list iff readOnlyPolicy is not none.
C6_FlagsIffPolicy ==
    (adOut.called /\ FlagSetOfCall # <<>>) =>
       (ContainsRun(adOut.args, FlagSetOfCall) <=> adIn.readOnlyPolicy # "none")

\* C6 amended: when extraFlags do not themselves carry the flag set,
\* buildInvocation puts the adapter's read-only flag set into the argument list
\* iff readOnlyPolicy is not none and, for Amp, the settings file exists on disk.
C6_FlagsIffPolicyAndSettingsFile ==
    (/\ adOut.called
     /\ FlagSetOfCall # <<>>
     /\ ~ContainsRun(Toks(adIn.extraFlags), FlagSetOfCall)) =>
       (ContainsRun(adOut.args, FlagSetOfCall) <=>
           /\ adIn.readOnlyPolicy # "none"
           /\ adIn.family = "amp" => adIn.settingsExists)

\* Amp under policy enforced with the settings file missing: no '--settings-file'
C6_Witness ==
    /\ adOut.called
    /\ adIn.family = "amp"
    /\ adIn.readOnlyPolicy = "enforced"
    /\ ~adIn.settingsExists
    /\ adIn.extraFlags = <<"-m", "smart">>
    /\ ~ContainsRun(adOut.args, FlagSetOfCall)

\* ===================================================== properties of execute

\* the longest execute may take on a child that can be signalled and times out
TimeoutBound(i) == timeoutMs[i] + KILL_GRACE_PERIOD + KillLatency

C8_SignalDiscipline ==
    /\ [](\A i \in Slots :
            /\ signals[i] \in {<<>>, <<"SIGTERM">>, <<"SIGTERM", "SIGKILL">>}
            /\ Len(sigAt[i]) = Len(signals[i])
            /\ Len(sigAt[i]) >= 1 => sigAt[i][1] = timeoutMs[i]
            /\ Len(sigAt[i]) >= 2 => sigAt[i][2] = sigAt[i][1] + KILL_GRACE_PERIOD)
    /\ [][\A i \in Slots :
            signals'[i] # signals[i] =>
               /\ child[i] \in {"running", "dying"}
               /\ ~settled[i]]_vars

\* a child that outlived the grace period: SIGTERM, then SIGKILL
C8_Witness ==
    /\ mode = "direct"
    /\ signals[1] = <<"SIGTERM", "SIGKILL">>
    /\ sigAt[1] = <<timeoutMs[1], timeoutMs[1] + KILL_GRACE_PERIOD>>

\* C9: for a child that is running when timeoutMs elapses and takes the
\* signals, execute resolves with timedOut = true no later than
\* timeoutMs + KILL_GRACE_PERIOD + the time the forced kill takes, and the
\* child is no longer running once it has resolved; in particular when the
\* child ignores SIGTERM and has to be killed.
C9_TimeoutBounded ==
    \A i \in Slots :
       (mode = "direct" /\ timer[i] = "fired" /\ killable[i]) =>
          /\ elapsed[i] <= TimeoutBound(i)
          /\ settled[i] =>
                /\ result[i].timedOut = TRUE
                /\ child[i] = "closed"
                /\ i \notin activeChildren
                /\ result[i].durationMs <= TimeoutBound(i)

\* the child ignored SIGTERM, was killed, and execute resolved at the bound
C9_Witness ==
    /\ mode = "direct"
    /\ signals[1] = <<"SIGTERM", "SIGKILL">>
    /\ settled[1]
    /\ result[1].timedOut
    /\ result[1].durationMs = TimeoutBound(1)
    /\ child[1] = "closed"

HasMarker(s) ==
    \E k \in 1..Len(s) :
       k + Len(TruncationMarker) - 1 <= Len(s)
       /\ SubSeq(s, k, k + Len(TruncationMarker) - 1) = TruncationMarker

\* C10: the text captured from each of the child's streams, stdout and stderr,
\* is never longer than MAX_OUTPUT_BYTES plus the truncation marker, and
\* carries the marker whenever the child wrote more than MAX_OUTPUT_BYTES on
\* that stream.
C10_BothStreamsCapped ==
    \A i \in Slots :
       /\ Len(stdout[i]) <= MAX_OUTPUT_BYTES + Len(TruncationMarker)
       /\ Len(stderr[i]) <= MAX_OUTPUT_BYTES + Len(TruncationMarker)
       /\ emittedOut[i] > MAX_OUTPUT_BYTES => HasMarker(stdout[i])
       /\ emittedErr[i] > MAX_OUTPUT_BYTES => HasMarker(stderr[i])

\* ------------------------------------------------ buildSafeEnv called by itself
\* the variable names the model tells apart
EnvNames ==
    {"PATH", "HOME", "HTTP_PROXY", "SECRET_KEY", "MY_TOOL_VAR", "CI", "NO_COLOR"}

ENV_ALLOWLIST ==
    {"PATH", "HOME", "USER", "TERM", "LANG", "SHELL", "TMPDIR",
     "XDG_CONFIG_HOME", "XDG_DATA_HOME"}

\* a variable that is not in an environment
Unset == "<unset>"

\* process.env of the parent: the names that vary, each unset, empty or set
ParentEnvs ==
    {e \in [EnvNames -> {Unset, "", "v"}] :
        \A k \in EnvNames \ {"PATH", "HOME", "HTTP_PROXY", "SECRET_KEY"} :
           e[k] = Unset}

\* invocation.env (undefined is the environment that sets nothing)
ExtraEnvs ==
    {e \in [EnvNames -> {Unset, "w"}] :
        \A k \in EnvNames \ {"MY_TOOL_VAR", "PATH", "CI"} : e[k] = Unset}

\* buildSafeEnv(extra), with process.env as the argument parent
buildSafeEnv(parent, extra) ==
    LET allowed == [k \in EnvNames |->
                      IF k \in ENV_ALLOWLIST /\ parent[k] \notin {Unset, ""}
                      THEN parent[k] ELSE Unset]
        assigned == [k \in EnvNames |->
                       IF extra[k] # Unset THEN extra[k] ELSE allowed[k]]
    IN [k \in EnvNames |->
          CASE k = "CI" -> "true"
            [] k = "NO_COLOR" -> "1"
            [] OTHER -> assigned[k]]

InitEnv ==
    /\ mode = "buildSafeEnv"
    /\ InitExecVars
    /\ InitDispIdle
    /\ InitAdIdle
    /\ \E parent \in ParentEnvs, extra \in ExtraEnvs :
          fnIn = [fn |-> "buildSafeEnv", parent |-> parent, extra |-> extra]
    /\ fnOut = [called |-> FALSE]

\* env: buildSafeEnv(invocation.env), as execute passes it to spawn
CallBuildSafeEnv ==
    /\ mode = "buildSafeEnv"
    /\ ~fnOut.called
    /\ fnOut' = [called |-> TRUE, env |-> buildSafeEnv(fnIn.parent, fnIn.extra)]
    /\ UNCHANGED <<mode, execVars, dispVars, adIn, adOut, fnIn, process>>

NextEnv == CallBuildSafeEnv

SpecEnv == InitEnv /\ [][NextEnv]_vars

\* ================================================ properties of buildSafeEnv

\* the names the allowlist is said to hold: the code's list and the proxy variables
ClaimedAllowlist == ENV_ALLOWLIST \cup {"HTTP_PROXY", "HTTPS_PROXY", "NO_PROXY"}

\* C11: the child's environment depends only on the allowlisted parent
\* variables and on invocation.env: a parent variable off the allowlist is never
\* visible to the child, every allowlisted variable set in the parent (the proxy
\* variables included) is visible unless invocation.env overrides it, and every
\* invocation.env override is visible.
C11_EnvAllowlist ==
    fnOut.called =>
       /\ \A q \in ParentEnvs :
             (\A k \in ClaimedAllowlist \cap EnvNames : q[k] = fnIn.parent[k]) =>
                buildSafeEnv(q, fnIn.extra) = fnOut.env
       /\ \A k \in EnvNames \ (ClaimedAllowlist \cup {"CI", "NO_COLOR"}) :
             fnIn.extra[k] = Unset => fnOut.env[k] = Unset
       /\ \A k \in ClaimedAllowlist \cap EnvNames :
             (fnIn.parent[k] # Unset /\ fnIn.extra[k] = Unset) =>
                fnOut.env[k] = fnIn.parent[k]
       /\ \A k \in EnvNames :
             fnIn.extra[k] # Unset => fnOut.env[k] = fnIn.extra[k]


\* ------------------------------------------ the output paths, computed alone
MaxIdLen == 4

\* the characters ids are drawn from: a letter, the dot, the separator, the
\* underscore and a character outside [a-zA-Z0-9._-] that is no separator
IdChars == {"a", ".", "/", "_", "$"}

\* `${safeId}.md`, `${safeId}.stderr`, `${safeId}.stats.json`
Suffixes == {<<".", "md">>, <<".", "stderr">>, <<".", "stats", ".", "json">>}

\* outputDir, as its segments
OutputDirSegments == << <<"o">>, <<"d">> >>

RECURSIVE SplitPath(_)
\* s.split('/')
SplitPath(s) ==
    IF s = <<>> THEN << <<>> >>
    ELSE LET r == SplitPath(Tail(s)) IN
         IF Head(s) = "/" THEN << <<>> >> \o r
         ELSE << <<Head(s)>> \o r[1] >> \o Tail(r)

RECURSIVE Normalize(_, _)
\* path.normalize on segments: '' and '.' vanish, '..' removes the segment
\* before it or, with none left, stays
Normalize(segs, done) ==
    IF segs = <<>> THEN done
    ELSE LET h == Head(segs) IN
         Normalize(Tail(segs),
            CASE h = <<>> \/ h = <<".">> -> done
              [] h = <<".", ".">> ->
                    IF done # <<>> /\ done[Len(done)] # <<".", ".">>
                    THEN SubSeq(done, 1, Len(done) - 1)
                    ELSE Append(done, h)
              [] OTHER -> Append(done, h))

\* join(outputDir, name)
JoinOutputDir(name) == Normalize(OutputDirSegments \o SplitPath(name), <<>>)

\* join(outputDir, `${sanitizeId(id)}${suffix}`)
OutputFilePath(id, suffix) == JoinOutputDir(sanitizeId(id) \o suffix)

InitPath ==
    /\ mode = "outputPath"
    /\ InitExecVars
    /\ InitDispIdle
    /\ InitAdIdle
    /\ \E id \in SeqUpTo(IdChars, MaxIdLen), suffix \in Suffixes :
          fnIn = [fn |-> "outputPath", id |-> id, suffix |-> suffix]
    /\ fnOut = [called |-> FALSE]

\* const safeId = sanitizeId(id); join(outputDir, `${safeId}<suffix>`)
CallOutputPath ==
    /\ mode = "outputPath"
    /\ ~fnOut.called
    /\ fnOut' = [called |-> TRUE, path |-> OutputFilePath(fnIn.id, fnIn.suffix)]
    /\ UNCHANGED <<mode, execVars, dispVars, adIn, adOut, fnIn, process>>

NextPath == CallOutputPath

SpecPath == InitPath /\ [][NextPath]_vars

\* ================================================ properties of the output paths

\* C12: for every tool id the path dispatch writes is a direct child of
\* outputDir: outputDir's segments followed by exactly one segment, which is
\* the id with every character outside [a-zA-Z0-9._-] replaced by '_' plus the
\* suffix, and holds no separator.
C12_PathInsideOutputDir ==
    fnOut.called =>
       LET path == fnOut.path
           n == Len(OutputDirSegments)
       IN /\ Len(path) = n + 1
          /\ SubSeq(path, 1, n) = OutputDirSegments
          /\ path[n + 1] =
                [k \in 1..Len(fnIn.id) |->
                   IF fnIn.id[k] \in SafeChars THEN fnIn.id[k] ELSE "_"]
                \o fnIn.suffix
          /\ \A k \in 1..Len(path[n + 1]) : path[n + 1][k] # "/"

\* the id '../a': its output file is outputDir/.._a.md
C12_Witness ==
    /\ fnOut.called
    /\ fnIn.id = <<".", ".", "/", "a">>
    /\ fnIn.suffix = <<".", "md">>
    /\ fnOut.path = OutputDirSegments \o << <<".", ".", "_", "a", ".", "md">> >>


\* ---------------------------------- the output paths of two entries of one run
MaxPairIdLen == 2

InitPathPair ==
    /\ mode = "outputPathPair"
    /\ InitExecVars
    /\ InitDispIdle
    /\ InitAdIdle
    /\ \E id \in SeqUpTo(IdChars, MaxPairIdLen),
          other \in SeqUpTo(IdChars, MaxPairIdLen), suffix \in Suffixes :
          fnIn = [fn |-> "outputPathPair", id |-> id, other |-> other,
                  suffix |-> suffix]
    /\ fnOut = [called |-> FALSE]

\* the paths two tasks of one dispatch compute for the same suffix
CallOutputPathPair ==
    /\ mode = "outputPathPair"
    /\ ~fnOut.called
    /\ fnOut' = [called |-> TRUE,
                 path |-> OutputFilePath(fnIn.id, fnIn.suffix),
                 otherPath |-> OutputFilePath(fnIn.other, fnIn.suffix)]
    /\ UNCHANGED <<mode, execVars, dispVars, adIn, adOut, fnIn, process>>

NextPathPair == CallOutputPathPair

SpecPathPair == InitPathPair /\ [][NextPathPair]_vars

\* C13: two different entries of the eligible-tool list never get the same
\* output, stderr or stats path, so no task overwrites another task's file.
C13_PathsPairwiseDifferent ==
    (fnOut.called /\ fnIn.id # fnIn.other) => fnOut.path # fnOut.otherPath

-----------------------------------------------------------------------------
\* The report of one finished execute call, as a function of its ExecResult

MaxStdoutLen == 4

ReportExitCodes == {0, 1, 2}

StdoutTexts == SeqUpTo({"x", "s"}, MaxStdoutLen)

StderrTexts == {<<>>, <<"E">>, <<"E", "E", "E", "E">>}

ExecResults ==
    [exitCode : ReportExitCodes, stdout : StdoutTexts, stderr : StderrTexts,
     timedOut : BOOLEAN, durationMs : {0, 1}]

InitReport ==
    /\ mode = "report"
    /\ InitExecVars
    /\ InitDispIdle
    /\ InitAdIdle
    /\ \E r \in ExecResults, id \in {"amp", "a/b"} :
          fnIn = [fn |-> "report", toolId |-> id, result |-> r]
    /\ fnOut = [called |-> FALSE]

\* part of one task: parseResult, the report literal and the merge
CallReport ==
    /\ mode = "report"
    /\ ~fnOut.called
    /\ fnOut' = [called |-> TRUE,
                 default |-> DefaultReport(fnIn.toolId, fnIn.result, fnIn.toolId = "amp"),
                 report |-> MergeParsed(
                     DefaultReport(fnIn.toolId, fnIn.result, fnIn.toolId = "amp"),
                     parseResult(fnIn.result))]
    /\ UNCHANGED <<mode, execVars, dispVars, adIn, adOut, fnIn, process>>

NextReport == CallReport

SpecReport == InitReport /\ [][NextReport]_vars

\* the number of whitespace-delimited tokens of s: one per position that ends a
\* maximal run of non-whitespace characters
TokenEnds(s) ==
    {k \in 1..Len(s) : s[k] # "s" /\ (k = Len(s) \/ s[k + 1] = "s")}

\* C14: the report's status is timeout when timedOut, else success when the exit
\* code is 0, else error; its wordCount is the number of whitespace-delimited
\* tokens of stdout; and merging parseResult over the dispatcher's own
\* derivation leaves the status as the dispatcher derived it.
C14_StatusAndWordCount ==
    (mode = "report" /\ fnOut.called) =>
        LET r == fnIn.result
            rep == fnOut.report
        IN /\ rep.status = (IF r.timedOut THEN "timeout"
                            ELSE IF r.exitCode = 0 THEN "success" ELSE "error")
           /\ rep.wordCount = Cardinality(TokenEnds(r.stdout))
           /\ rep.status = fnOut.default.status

\* a timed-out run with a non-zero exit code and two tokens between blanks
C14_Witness ==
    /\ mode = "report"
    /\ fnOut.called
    /\ fnIn.result.timedOut
    /\ fnIn.result.exitCode = 2
    /\ fnIn.result.stdout = <<"x", "s", "s", "x">>
    /\ fnOut.report.status = "timeout"
    /\ fnOut.report.wordCount = 2

\* C15: in the list dispatch returns, a report has its error field set exactly
\* when its status is error or timeout, and the field then holds the excerpt:
\* the first ErrorExcerptLength characters of the run's stderr (the spawn error
\* message included) or the thrown exception's message.
C15_ErrorIffFailed ==
    dpc = "returned" =>
        \A i \in 1..Len(results) :
            /\ results[i].error.set <=> results[i].status \in {"error", "timeout"}
            /\ results[i].error.set =>
                   results[i].error.text =
                       (IF thrown[i] # "none" THEN ThrownMessage
                        ELSE Slice(result[i].stderr, ErrorExcerptLength))

\* the positions of the events of one kind delivered for task i
EventsOf(i, kind) == {k \in 1..Len(events[i]) : events[i][k].event = kind}

\* C16: for every tool of a dispatch the observer receives at most one
\* 'started' and at most one 'completed'; a 'completed' comes after that tool's
\* 'started' and only once the tool's process has finished (closed, or never
\* came to exist), and it carries that tool's report.
C16_ProgressEvents ==
    \A i \in Slots :
        /\ Cardinality(EventsOf(i, "started")) <= 1
        /\ Cardinality(EventsOf(i, "completed")) <= 1
        /\ \A k \in EventsOf(i, "completed") :
              /\ \E j \in EventsOf(i, "started") : j < k
              /\ child[i] \in {"closed", "errored"}
              /\ events[i][k].toolId = eligibleTools[i]
              /\ events[i][k].report.toolId = eligibleTools[i]
              /\ task[i] = "fulfilled" => events[i][k].report = report[i]

\* C17: in one dispatch execute is entered at most once per eligible tool.  A
\* task enters execute only from a state in which it has not run; a tool that
\* was spawned is never spawned again and a task that ran is never queued
\* again; a finished task and a settled result never change; and the list
\* dispatch returns reports that first outcome.
C17_NoRetry ==
    /\ [](\A i \in Slots :
             task[i] \in {"unused", "queued", "usageBefore"} => child[i] = "none")
    /\ [][\A i \in Slots :
             /\ child[i] # "none" => child'[i] # "none"
             /\ child[i] \in {"closed", "errored"} => child'[i] = child[i]
             /\ (child[i] = "none" /\ child'[i] # "none") =>
                    /\ task[i] \in {"queued", "usageBefore"}
                    /\ task'[i] = "executing"
             /\ task[i] \notin {"unused", "queued"} =>
                    task'[i] \notin {"unused", "queued"}
             /\ task[i] \in Done => task'[i] = task[i]
             /\ settled[i] => settled'[i] /\ result'[i] = result[i]
             /\ (dpc # "returned" /\ dpc' = "returned" /\ i \in 1..Len(results')) =>
                    IF task[i] = "fulfilled"
                    THEN /\ results'[i].status = StatusOf(result[i])
                         /\ results'[i].exitCode = result[i].exitCode
                    ELSE results'[i].status = "error"]_vars

\* dispatch has returned; one tool timed out and was signalled, another threw
\* after its run, and each is reported with that outcome
C17_Witness ==
    /\ dpc = "returned"
    /\ Len(results) = 2
    /\ result[1].timedOut
    /\ signals[1] # <<>>
    /\ results[1].status = "timeout"
    /\ child[2] = "closed"
    /\ thrown[2] = "safeWriteFile"
    /\ results[2].status = "error"

-----------------------------------------------------------------------------
\* The SIGINT handler of the executor module, with execute called at any time

\* setTimeout(() => process.exit(1), 2000), in ticks
SIGINT_EXIT_GRACE == 2

MaxSigints == 2

MaxNow == MaxElapsed

\* a handler that signals one registered child only
SigintTargetsOne ==
    IF activeChildren = {} THEN {} ELSE {CHOOSE i \in activeChildren : TRUE}

\* for (const child of activeChildren)
SigintTargets == activeChildren

InitInterrupt ==
    /\ mode = "interrupt"
    /\ InitExecVars
    /\ InitDispIdle
    /\ InitAdIdle
    /\ InitFnIdle

\* the handler is installed when the executor module loads, so it is there
\* under dispatch as well
ProcessRunning == mode \in {"interrupt", "dispatch"} /\ ~process.exited

\* execute(invocation, timeoutMs) called while the process runs
InterruptibleExecute(i) ==
    /\ ProcessRunning
    /\ \E ms \in 1..MaxTimeout, spawned \in SpawnOutcomes :
          ExecuteBody(i, ms, spawned)
    /\ UNCHANGED <<mode, dispVars, adVars>>

\* process.on('SIGINT', ...): child.kill('SIGTERM') on every registered child,
\* then the exit timer.  A kill() that fails emits 'error' synchronously, so
\* that child's 'error' handler runs inside the loop.
Sigint ==
    /\ ProcessRunning
    /\ Len(process.sigintAt) < MaxSigints
    /\ LET targets == SigintTargets
           failed == {i \in targets : Alive(i) /\ ~killable[i]}
       IN /\ process' = [process EXCEPT
                            !.sigintAt = Append(@, process.now),
                            !.sigterm = @ \cup targets,
                            !.exitTimers = @ \cup {process.now + SIGINT_EXIT_GRACE}]
          /\ killed' = [i \in Slots |-> killed[i] \/ i \in failed]
          /\ timer' = [i \in Slots |-> IF i \in failed THEN clearTimeout(timer[i])
                                        ELSE timer[i]]
          /\ killTimer' = [i \in Slots |->
                              IF i \in failed THEN clearTimeout(killTimer[i])
                              ELSE killTimer[i]]
          /\ activeChildren' = activeChildren \ failed
          /\ settled' = [i \in Slots |-> settled[i] \/ i \in failed]
          /\ result' = [i \in Slots |->
                           IF i \in failed /\ ~settled[i]
                           THEN ErrorResult(i, KillErrorMessage) ELSE result[i]]
    /\ UNCHANGED <<mode, dispVars, adIn, adOut, fnIn, fnOut, child, killable,
                   timeoutMs, elapsed, stdout, stderr, truncated, timedOut, killAt,
                   closeBy, signals, sigAt, emittedOut, emittedErr, chunksOut,
                   chunksErr>>

\* the exit timer's callback: process.exit(1)
ExitTimerFire ==
    /\ ProcessRunning
    /\ \E due \in process.exitTimers : due <= process.now
    /\ process' = [process EXCEPT !.exited = TRUE, !.exitedAt = process.now,
                                   !.exitTimers = {}]
    /\ UNCHANGED <<mode, execVars, dispVars, adIn, adOut, fnIn, fnOut>>

\* one tick of the clock, once every due timer has fired
ProcessTick ==
    /\ ProcessRunning
    /\ \A i \in Slots : ~Urgent(i)
    /\ \A due \in process.exitTimers : process.now < due
    /\ process.now < MaxNow \/ process.exitTimers # {}
    /\ \A i \in Slots : Counting(i) => elapsed[i] < MaxElapsed
    /\ elapsed' = [i \in Slots |-> IF Counting(i) THEN elapsed[i] + 1
                                   ELSE elapsed[i]]
    /\ process' = [process EXCEPT !.now = @ + 1]
    /\ UNCHANGED <<mode, dispVars, adIn, adOut, fnIn, fnOut, child, killable,
                   timeoutMs, stdout, stderr, truncated, timedOut, killed, timer,
                   killTimer, killAt, closeBy, settled, result, signals, sigAt,
                   emittedOut, emittedErr, chunksOut, chunksErr, activeChildren>>

NextInterrupt ==
    \/ \E i \in Slots : InterruptibleExecute(i)
    \/ Sigint
    \/ ExitTimerFire
    \/ ProcessTick
    \/ \E i \in Slots : ProcessRunning /\ TimerFire(i)
    \/ \E i \in Slots : ProcessRunning /\ KillTimerFire(i)
    \/ \E i \in Slots : ProcessRunning /\ ChildClose(i)
    \/ \E i \in Slots : ProcessRunning /\ SpawnError(i)

SpecInterrupt == InitInterrupt /\ [][NextInterrupt]_vars

-----------------------------------------------------------------------------
\* computeAmpCost called by itself.  Amounts are integers in fifths of a cent,
\* a unit in which rounding to cents never meets a tie.

PerCent == 5

MaxBalance == 7

Balances == 0..MaxBalance

Snapshots ==
    [freeRemaining : Balances, freeTotal : {MaxBalance}, creditsRemaining : Balances]

\* Math.round(x * 100) / 100
RoundCents(x) == ((2 * x + PerCent) \div (2 * PerCent)) * PerCent

\* the balance difference taken with its sign
DecreaseSigned(b, a) == b - a

\* Math.max(0, before - after)
Decrease(b, a) == IF b - a > 0 THEN b - a ELSE 0

computeAmpCost(before, after) ==
    LET freeUsed == Decrease(before.freeRemaining, after.freeRemaining)
        creditsUsed == Decrease(before.creditsRemaining, after.creditsRemaining)
        totalCost == freeUsed + creditsUsed
        source == IF creditsUsed > 0 THEN "credits" ELSE "free"
    IN [cost_usd |-> RoundCents(totalCost),
        free_used_usd |-> RoundCents(freeUsed),
        credits_used_usd |-> RoundCents(creditsUsed),
        source |-> source,
        free_remaining_usd |-> after.freeRemaining,
        free_total_usd |-> after.freeTotal,
        credits_remaining_usd |-> after.creditsRemaining]

InitCost ==
    /\ mode = "computeAmpCost"
    /\ InitExecVars
    /\ InitDispIdle
    /\ InitAdIdle
    /\ \E b \in Snapshots, a \in Snapshots :
          fnIn = [fn |-> "computeAmpCost", before |-> b, after |-> a]
    /\ fnOut = [called |-> FALSE]

CallComputeAmpCost ==
    /\ mode = "computeAmpCost"
    /\ ~fnOut.called
    /\ fnOut' = [called |-> TRUE, cost |-> computeAmpCost(fnIn.before, fnIn.after)]
    /\ UNCHANGED <<mode, execVars, dispVars, adIn, adOut, fnIn, process>>

NextCost == CallComputeAmpCost

SpecCost == InitCost /\ [][NextCost]_vars

\* the decrease of a balance as the statements below read it
Drop(b, a) == IF b > a THEN b - a ELSE 0

\* r is the whole number of cents nearest to x
IsNearestCent(r, x) ==
    /\ r % PerCent = 0
    /\ 2 * (IF r > x THEN r - x ELSE x - r) < PerCent

WholeCents(snapshot) ==
    /\ snapshot.freeRemaining % PerCent = 0
    /\ snapshot.creditsRemaining % PerCent = 0

\* C19 as stated: each reported amount is the decrease max(0, before - after)
\* itself, source is credits exactly when the paid-credit balance decreased,
\* the total is the sum of the two decreases, and it is zero when before
\* equals after.
C19_CostIsTheDecrease ==
    (mode = "computeAmpCost" /\ fnOut.called) =>
        LET b == fnIn.before
            a == fnIn.after
            c == fnOut.cost
        IN /\ c.free_used_usd = Drop(b.freeRemaining, a.freeRemaining)
           /\ c.credits_used_usd = Drop(b.creditsRemaining, a.creditsRemaining)
           /\ c.source = "credits" <=> a.creditsRemaining < b.creditsRemaining
           /\ c.source \in {"credits", "free"}
           /\ c.cost_usd = Drop(b.freeRemaining, a.freeRemaining)
                             + Drop(b.creditsRemaining, a.creditsRemaining)
           /\ b = a => c.cost_usd = 0

\* C19, amended: each reported amount is the decrease rounded to the nearest
\* cent, and the total is the sum of the two decreases rounded to the nearest
\* cent; source is credits exactly when the paid-credit balance decreased, by
\* however little; for balances in whole cents the amounts are the decreases
\* themselves and the total is their sum; the total is zero when before equals
\* after.
C19_CostIsTheRoundedDecrease ==
    (mode = "computeAmpCost" /\ fnOut.called) =>
        LET b == fnIn.before
            a == fnIn.after
            c == fnOut.cost
            freeDrop == Drop(b.freeRemaining, a.freeRemaining)
            creditsDrop == Drop(b.creditsRemaining, a.creditsRemaining)
        IN /\ IsNearestCent(c.free_used_usd, freeDrop)
           /\ IsNearestCent(c.credits_used_usd, creditsDrop)
           /\ IsNearestCent(c.cost_usd, freeDrop + creditsDrop)
           /\ c.source = "credits" <=> a.creditsRemaining < b.creditsRemaining
           /\ c.source \in {"credits", "free"}
           /\ (WholeCents(b) /\ WholeCents(a)) =>
                 /\ c.free_used_usd = freeDrop
                 /\ c.credits_used_usd = creditsDrop
                 /\ c.cost_usd = freeDrop + creditsDrop
           /\ b = a => c.cost_usd = 0

\* both balances fell by two fifths of a cent: neither amount reaches a cent,
\* the total does, and the source is credits
C19_Witness ==
    /\ mode = "computeAmpCost"
    /\ fnOut.called
    /\ fnIn.before.freeRemaining - fnIn.after.freeRemaining = 2
    /\ fnIn.before.creditsRemaining - fnIn.after.creditsRemaining = 2
    /\ fnOut.cost.free_used_usd = 0
    /\ fnOut.cost.credits_used_usd = 0
    /\ fnOut.cost.cost_usd = PerCent
    /\ fnOut.cost.source = "credits"

-----------------------------------------------------------------------------
\* mergeConfigs called by itself

\* Record<ReadOnlyLevel, number>
READ_ONLY_STRICTNESS ==
    [level \in Levels |-> CASE level = "none" -> 0
                            [] level = "bestEffort" -> 1
                            [] level = "enforced" -> 2]

\* a merge in which the later source wins
stricterReadOnlyLaterWins(a, b) == b

\* the stricter of two read-only levels
stricterReadOnly(a, b) ==
    IF READ_ONLY_STRICTNESS[a] >= READ_ONLY_STRICTNESS[b] THEN a ELSE b

TimeoutChoices == {"540", "300"}

\* the values a key of `defaults` may hold
DefaultsValues(key) == IF key = "readOnly" THEN Levels ELSE TimeoutChoices

DefaultsKeys == {"readOnly", "timeout"}

\* objects holding some of the keys of `defaults`
PartialDefaults ==
    UNION {{d \in [keys -> Levels \cup TimeoutChoices] :
               \A key \in keys : d[key] \in DefaultsValues(key)} :
           keys \in SUBSET DefaultsKeys}

\* Config['defaults'], every key present
FullDefaults == {d \in PartialDefaults : DOMAIN d = DefaultsKeys}

EmptyObject == CHOOSE d \in PartialDefaults : DOMAIN d = {}

\* a project config: null, without `defaults`, or with some defaults
ProjectConfigs ==
    {[isNull |-> TRUE, hasDefaults |-> FALSE, defaults |-> EmptyObject],
     [isNull |-> FALSE, hasDefaults |-> FALSE, defaults |-> EmptyObject]}
    \cup [isNull : {FALSE}, hasDefaults : {TRUE}, defaults : PartialDefaults]

\* the optional third argument
CliFlagChoices ==
    {[given |-> FALSE, flags |-> EmptyObject]}
    \cup [given : {TRUE}, flags : PartialDefaults]

\* { ...a, ...b }
Spread(a, b) ==
    [key \in DOMAIN a \cup DOMAIN b |-> IF key \in DOMAIN b THEN b[key] ELSE a[key]]

mergeConfigs(global, project, cliFlags) ==
    LET copied == Spread(global.defaults, EmptyObject)
        overlaid == Spread(copied, project.defaults)
        clamped ==
            IF ~project.isNull /\ project.hasDefaults
            THEN [overlaid EXCEPT
                     !["readOnly"] = stricterReadOnly(global.defaults["readOnly"],
                                                      overlaid["readOnly"])]
            ELSE copied
    IN [defaults |-> IF cliFlags.given THEN Spread(clamped, cliFlags.flags)
                     ELSE clamped]

InitMerge ==
    /\ mode = "mergeConfigs"
    /\ InitExecVars
    /\ InitDispIdle
    /\ InitAdIdle
    /\ \E g \in FullDefaults, project \in ProjectConfigs, cli \in CliFlagChoices :
          fnIn = [fn |-> "mergeConfigs", global |-> [defaults |-> g],
                  project |-> project, cliFlags |-> cli]
    /\ fnOut = [called |-> FALSE]

CallMergeConfigs ==
    /\ mode = "mergeConfigs"
    /\ ~fnOut.called
    /\ fnOut' = [called |-> TRUE,
                 merged |-> mergeConfigs(fnIn.global, fnIn.project, fnIn.cliFlags)]
    /\ UNCHANGED <<mode, execVars, dispVars, adIn, adOut, fnIn, process>>

NextMerge == CallMergeConfigs

SpecMerge == InitMerge /\ [][NextMerge]_vars

\* none < bestEffort < enforced
AtLeastAsStrict(a, b) ==
    \/ a = b
    \/ a = "enforced"
    \/ b = "none"

\* whether the project config names a read-only level
ProjectSetsReadOnly ==
    /\ ~fnIn.project.isNull
    /\ fnIn.project.hasDefaults
    /\ "readOnly" \in DOMAIN fnIn.project.defaults

\* whether the call carries a CLI value for readOnly
CliSetsReadOnly ==
    fnIn.cliFlags.given /\ "readOnly" \in DOMAIN fnIn.cliFlags.flags

\* C20: without a CLI value for readOnly, the merged readOnly is the stricter of
\* the global level and the project's (the global level when the project names
\* none): it is one of the two and at least as strict as each, so never weaker
\* than the global one.  A CLI value for readOnly, and nothing else, replaces it.
C20_ProjectCannotWeaken ==
    (mode = "mergeConfigs" /\ fnOut.called) =>
        LET g == fnIn.global.defaults["readOnly"]
            m == fnOut.merged.defaults["readOnly"]
        IN IF CliSetsReadOnly
           THEN m = fnIn.cliFlags.flags["readOnly"]
           ELSE /\ AtLeastAsStrict(m, g)
                /\ IF ProjectSetsReadOnly
                   THEN /\ AtLeastAsStrict(m, fnIn.project.defaults["readOnly"])
                        /\ m \in {g, fnIn.project.defaults["readOnly"]}
                   ELSE m = g

\* the project asks for none under a global enforced and no CLI value names
\* readOnly: the merged level stays enforced while the project's timeout is
\* taken over
C20_Witness ==
    /\ mode = "mergeConfigs"
    /\ fnOut.called
    /\ fnIn.global.defaults["readOnly"] = "enforced"
    /\ fnIn.global.defaults["timeout"] = "540"
    /\ ProjectSetsReadOnly
    /\ fnIn.project.defaults["readOnly"] = "none"
    /\ "timeout" \in DOMAIN fnIn.project.defaults
    /\ fnIn.project.defaults["timeout"] = "300"
    /\ ~CliSetsReadOnly
    /\ fnOut.merged.defaults["readOnly"] = "enforced"
    /\ fnOut.merged.defaults["timeout"] = "300"

-----------------------------------------------------------------------------
\* `counselors run`: from the command line to the policy handed to dispatch

\* .option('--read-only <level>', ..., 'best-effort')
ReadOnlyOptionDefault == "best-effort"

\* what the user may type after --read-only, or nothing at all
ReadOnlyFlagChoices == {Unset, "strict", "best-effort", "off", "bogus"}

\* opts.readOnly as the option parser delivers it
OptsReadOnly(flag) == IF flag = Unset THEN ReadOnlyOptionDefault ELSE flag

readOnlyMap ==
    [flag \in {"strict", "best-effort", "off"} |->
        CASE flag = "strict" -> "enforced"
          [] flag = "best-effort" -> "bestEffort"
          [] flag = "off" -> "none"]

NoCliFlags == [given |-> FALSE, flags |-> EmptyObject]

\* the action of the run command up to the read-only policy: load and merge the
\* configurations, then map opts.readOnly
RunPolicy(global, project, flag) ==
    LET merged == mergeConfigs(global, project, NoCliFlags)
        optsReadOnly == OptsReadOnly(flag)
    IN IF optsReadOnly \in DOMAIN readOnlyMap
       THEN [called |-> TRUE, config |-> merged, rejected |-> FALSE,
             readOnlyPolicy |-> readOnlyMap[optsReadOnly]]
       ELSE [called |-> TRUE, config |-> merged, rejected |-> TRUE,
             readOnlyPolicy |-> "none"]

InitRunPolicy ==
    /\ mode = "runPolicy"
    /\ InitExecVars
    /\ InitDispIdle
    /\ InitAdIdle
    /\ \E g \in FullDefaults, project \in ProjectConfigs,
          flag \in ReadOnlyFlagChoices :
          fnIn = [fn |-> "runPolicy", global |-> [defaults |-> g],
                  project |-> project, flag |-> flag]
    /\ fnOut = [called |-> FALSE]

CallRunPolicy ==
    /\ mode = "runPolicy"
    /\ ~fnOut.called
    /\ fnOut' = RunPolicy(fnIn.global, fnIn.project, fnIn.flag)
    /\ UNCHANGED <<mode, execVars, dispVars, adIn, adOut, fnIn, process>>

NextRunPolicy == CallRunPolicy

SpecRunPolicy == InitRunPolicy /\ [][NextRunPolicy]_vars

\* C21: when the run command is invoked without --read-only, the policy handed
\* to dispatch is the merged configuration's defaults.readOnly.
C21_PolicyFallsBackToConfig ==
    (mode = "runPolicy" /\ fnOut.called /\ fnIn.flag = Unset) =>
        /\ ~fnOut.rejected
        /\ fnOut.readOnlyPolicy = fnOut.config.defaults["readOnly"]

-----------------------------------------------------------------------------
\* `counselors run`, from the resolved prompt to the written manifest.  The
\* tools, the policy and the merged configuration are the dispatch variables
\* toolIds, readOnlyPolicy and config; fnIn holds the other arguments and fnOut
\* the command's position and what it has done.

\* join(baseDir, slug)/prompt.md
PlainPromptFile == <<"p">>

\* the same under `${outputDir}-${Date.now()}`, taken when the directory exists
StampedPromptFile == <<"p", "q">>

\* the stage at which the command tests opts.dryRun, moved behind the creation
\* of the output directory
DryRunCheckpointAfterMkdir == "dir"

\* the stage at which the command tests opts.dryRun: right after the prompt is
\* resolved, before resolveOutputDir
DryRunCheckpoint == "start"

\* the RunRequest of the dry-run branch: no extraFlags
DryRunRequest(id) ==
    [promptFilePath |-> PlainPromptFile,
     readOnlyPolicy |-> readOnlyPolicy,
     extraFlags |-> <<>>]

\* the RunRequest dispatch builds for a task
DispatchRequest(id, promptFilePath) ==
    [promptFilePath |-> promptFilePath,
     readOnlyPolicy |-> readOnlyPolicy,
     extraFlags |-> ToolConfigOf(id).extraFlags]

\* resolveAdapter(id, toolConfig).buildInvocation(req), as the printed entry
InvocationOf(id, req) ==
    [toolId |-> id,
     args |-> BuildInvocation(AdapterOf(id, ToolConfigOf(id)), req,
                              ToolConfigOf(id), fnIn.settingsExists).args]

\* toolIds.map(...) of the dry-run branch
DryRunInvocations ==
    [k \in 1..Len(toolIds) |-> InvocationOf(toolIds[k], DryRunRequest(toolIds[k]))]

\* the invocations dispatch hands to execute, in task order
DispatchInvocations(promptFilePath) ==
    LET eligible == SelectSeq(toolIds, IsEligible) IN
    [k \in 1..Len(eligible) |->
        InvocationOf(eligible[k], DispatchRequest(eligible[k], promptFilePath))]

\* the tool ids the run command lets through its validation
RunToolIds == {id \in ToolIds : \E c \in ToolChoices(id) : c.configured}

InitRun ==
    /\ mode = "run"
    /\ InitExecVars
    /\ InitAdIdle
    /\ toolIds \in SeqUpTo(RunToolIds, MaxTools) \ {<<>>}
    /\ readOnlyPolicy \in Levels
    /\ \E tools \in ConfigChoices :
          /\ \A id \in ToolIds :
                (\A k \in 1..Len(toolIds) : toolIds[k] # id) =>
                    tools[id] = DefaultChoice(id)
          /\ config = [maxParallel |-> MaxParallel, timeout |-> MaxTimeout,
                       tools |-> tools]
    /\ dpc = "called"
    /\ dispatchError = ""
    /\ eligibleTools = <<>>
    /\ task = [i \in Slots |-> "unused"]
    /\ usageBefore = [i \in Slots |-> FALSE]
    /\ thrown = [i \in Slots |-> "none"]
    /\ report = [i \in Slots |-> NoReport]
    /\ results = <<>>
    /\ events = [i \in Slots |-> <<>>]
    /\ files = {}
    /\ warnings = {}
    /\ \E dryRun \in BOOLEAN, dirExists \in BOOLEAN, settingsExists \in BOOLEAN :
          fnIn = [fn |-> "run", dryRun |-> dryRun, dirExists |-> dirExists,
                  settingsExists |-> settingsExists]
    /\ fnOut = [called |-> FALSE, pc |-> "start", dirCreated |-> FALSE,
                written |-> {}, dispatched |-> FALSE, printed |-> <<>>,
                executed |-> <<>>]

RunUnchanged == UNCHANGED <<mode, execVars, dispVars, adIn, adOut, fnIn, process>>

\* if (opts.dryRun) { ...; info(formatDryRun(invocations)); return; }
RunDryRun ==
    /\ mode = "run"
    /\ fnIn.dryRun
    /\ fnOut.pc = DryRunCheckpoint
    /\ fnOut' = [fnOut EXCEPT !.called = TRUE, !.pc = "done",
                               !.printed = DryRunInvocations]
    /\ RunUnchanged

\* resolveOutputDir(baseDir, slug): creates the directory
RunResolveOutputDir ==
    /\ mode = "run"
    /\ fnOut.pc = "start"
    /\ ~(fnIn.dryRun /\ DryRunCheckpoint = "start")
    /\ fnOut' = [fnOut EXCEPT !.pc = "dir", !.dirCreated = TRUE]
    /\ RunUnchanged

\* copyFileSync / safeWriteFile of prompt.md
RunWritePrompt ==
    /\ mode = "run"
    /\ fnOut.pc = "dir"
    /\ ~(fnIn.dryRun /\ DryRunCheckpoint = "dir")
    /\ fnOut' = [fnOut EXCEPT !.pc = "prompt", !.written = @ \cup {"prompt.md"}]
    /\ RunUnchanged

\* await dispatch({...}): rejects when no tool is eligible, otherwise runs the
\* invocation of each eligible tool
RunDispatch ==
    /\ mode = "run"
    /\ fnOut.pc = "prompt"
    /\ LET promptFilePath == IF fnIn.dirExists THEN StampedPromptFile
                             ELSE PlainPromptFile
           executed == DispatchInvocations(promptFilePath)
       IN fnOut' = [fnOut EXCEPT
                       !.pc = IF FailFast(executed) THEN "failed" ELSE "dispatched",
                       !.called = FailFast(executed),
                       !.dispatched = TRUE,
                       !.executed = executed]
    /\ RunUnchanged

\* safeWriteFile(run.json); synthesize; safeWriteFile(summary.md)
RunWriteManifest ==
    /\ mode = "run"
    /\ fnOut.pc = "dispatched"
    /\ fnOut' = [fnOut EXCEPT !.pc = "done", !.called = TRUE,
                               !.written = @ \cup {"run.json", "summary.md"}]
    /\ RunUnchanged

NextRun ==
    \/ RunDryRun
    \/ RunResolveOutputDir
    \/ RunWritePrompt
    \/ RunDispatch
    \/ RunWriteManifest

SpecRun == InitRun /\ [][NextRun]_vars

\* C22: a dry run never creates the output directory, never writes prompt.md,
\* run.json or summary.md, never calls dispatch and so never runs a tool.
C22_DryRunWritesNothing ==
    (mode = "run" /\ fnIn.dryRun) =>
        /\ ~fnOut.dirCreated
        /\ fnOut.written = {}
        /\ ~fnOut.dispatched
        /\ fnOut.executed = <<>>
        /\ fnOut.pc \in {"start", "done"}

\* a dry run over two tools has printed both invocations and returned
C22_Witness ==
    /\ mode = "run"
    /\ fnIn.dryRun
    /\ fnOut.pc = "done"
    /\ Len(fnOut.printed) = 2
    /\ ~fnOut.dirCreated
    /\ fnOut.written = {}

\* C23: what a dry run prints is what a run with the same arguments executes:
\* the tools left by the read-only filter, each with the argument list
\* dispatch builds for it, the configured extraFlags included.
C23_DryRunPrintsWhatRuns ==
    (mode = "run" /\ fnIn.dryRun /\ fnOut.pc = "done") =>
        fnOut.printed = DispatchInvocations(IF fnIn.dirExists THEN StampedPromptFile
                                            ELSE PlainPromptFile)

-----------------------------------------------------------------------------
\* The output file of one tool: written by dispatch, read back by synthesize

ReportStatuses == {"success", "error", "timeout"}

\* extractHeadings: join(outputDir, `${report.toolId}.md`)
HeadingsPath(id) == JoinOutputDir(id \o <<".", "md">>)

InitSynth ==
    /\ mode = "synthesize"
    /\ InitExecVars
    /\ InitDispIdle
    /\ InitAdIdle
    /\ \E id \in SeqUpTo(IdChars, MaxIdLen) \ {<<>>}, status \in ReportStatuses :
          fnIn = [fn |-> "synthesize", id |-> id, status |-> status]
    /\ fnOut = [called |-> FALSE]

\* dispatch writes the tool's output file; synthesize then looks for the
\* headings of a successful tool (existsSync on its own path, in a directory
\* that holds this tool's files only)
CallSynthesize ==
    /\ mode = "synthesize"
    /\ ~fnOut.called
    /\ LET written == OutputFilePath(fnIn.id, <<".", "md">>)
           read == HeadingsPath(fnIn.id)
       IN fnOut' = [called |-> TRUE,
                    written |-> written,
                    looked |-> fnIn.status = "success",
                    read |-> read,
                    found |-> fnIn.status = "success" /\ read = written]
    /\ UNCHANGED <<mode, execVars, dispVars, adIn, adOut, fnIn, process>>

NextSynth == CallSynthesize

SpecSynth == InitSynth /\ [][NextSynth]_vars

\* C24: for every tool id, the file synthesize reads a successful tool's
\* headings from is the file dispatch wrote for that tool, so the file is found.
C24_SummaryReadsWhatDispatchWrote ==
    (mode = "synthesize" /\ fnOut.called /\ fnIn.status = "success") =>
        /\ fnOut.looked
        /\ fnOut.read = fnOut.written
        /\ fnOut.found

-----------------------------------------------------------------------------
\* AmpAdapter.getEffectiveReadOnlyLevel called by itself

MaxFlags == 4

FlagTokens == {"-m", "deep", "smart"}

\* toolConfig.extraFlags: a list of flags (the empty list also stands for an
\* absent one, which the optional chaining treats alike)
InitAmpLevel ==
    /\ mode = "ampLevel"
    /\ InitExecVars
    /\ InitDispIdle
    /\ InitAdIdle
    /\ \E flags \in SeqUpTo(FlagTokens, MaxFlags) :
          fnIn = [fn |-> "getEffectiveReadOnlyLevel",
                  toolConfig |-> ToolCfg("", "enforced", flags, NoTimeout)]
    /\ fnOut = [called |-> FALSE]

CallGetEffectiveReadOnlyLevel ==
    /\ mode = "ampLevel"
    /\ ~fnOut.called
    /\ fnOut' = [called |-> TRUE, level |-> EffectiveLevel("amp", fnIn.toolConfig)]
    /\ UNCHANGED <<mode, execVars, dispVars, adIn, adOut, fnIn, process>>

NextAmpLevel == CallGetEffectiveReadOnlyLevel

SpecAmpLevel == InitAmpLevel /\ [][NextAmpLevel]_vars

\* C25: Amp's effective level is bestEffort exactly when some position of
\* extraFlags holds 'deep' with '-m' right before it, and enforced otherwise.
C25_DeepIffMinusMDeep ==
    (mode = "ampLevel" /\ fnOut.called) =>
        LET flags == fnIn.toolConfig.extraFlags IN
        IF \E k \in 2..Len(flags) : flags[k] = "deep" /\ flags[k - 1] = "-m"
        THEN fnOut.level = "bestEffort"
        ELSE fnOut.level = "enforced"

-----------------------------------------------------------------------------
\* execute: timers and the timedOut flag

\* C26: on every exit path of execute, once the promise has resolved neither
\* the outer timer nor the grace-period timer is pending, and from then on no
\* timer callback runs and no signal is sent.
C26_NoTimerAfterResolve ==
    /\ [](\A i \in Slots :
             settled[i] => timer[i] # "pending" /\ killTimer[i] # "pending")
    /\ [][\A i \in Slots :
             settled[i] =>
                /\ timer'[i] = "fired" => timer[i] = "fired"
                /\ killTimer'[i] = "fired" => killTimer[i] = "fired"
                /\ signals'[i] = signals[i]]_vars

\* C30: the timedOut flag of the result is true exactly when the outer timer
\* had fired by the time execute resolved; in particular a child that closes
\* before its deadline yields false.
C30_TimedOutIffTimerFired ==
    \A i \in Slots :
       (mode = "direct" /\ settled[i]) =>
          /\ result[i].timedOut <=> timer[i] = "fired"
          /\ result[i].durationMs < timeoutMs[i] => ~result[i].timedOut


\* ================================== the prompt path in the instruction argument

\* C27: for Claude, Codex and a custom tool without stdin delivery, the
\* argument list holds the instruction built from the prompt path with its
\* control characters removed (tab kept), so no argument's path holds a newline.
C27_InstructionPathSanitized ==
    (/\ mode = "adapter"
     /\ adOut.called
     /\ \/ adIn.family \in {"claude", "codex"}
        \/ adIn.family = "custom" /\ ~adIn.stdin) =>
       /\ \E k \in 1..Len(adOut.args) :
             adOut.args[k] = Instruction(sanitizePath(adIn.promptFilePath))
       /\ \A k \in 1..Len(adOut.args) :
             \A j \in 1..Len(adOut.args[k].path) : adOut.args[k].path[j] # "n"


\* ===================================================== dispatch runs to its end

\* dispatch(options) called with two configured tools, any policy left aside
QueueToolIds == {"amp", "a/b"}

InitQueue ==
    /\ mode = "dispatch"
    /\ InitExecVars
    /\ InitAdIdle
    /\ InitFnIdle
    /\ toolIds \in [1..MaxTools -> QueueToolIds]
    /\ readOnlyPolicy = "none"
    /\ \E mp \in 1..MaxParallel :
          config = [maxParallel |-> mp, timeout |-> MaxTimeout,
                    tools |-> [id \in ToolIds |-> DefaultChoice(id)]]
    /\ dpc = "called"
    /\ dispatchError = ""
    /\ eligibleTools = <<>>
    /\ task = [i \in Slots |-> "unused"]
    /\ usageBefore = [i \in Slots |-> FALSE]
    /\ thrown = [i \in Slots |-> "none"]
    /\ report = [i \in Slots |-> NoReport]
    /\ results = <<>>
    /\ events = [i \in Slots |-> <<>>]
    /\ files = {}
    /\ warnings = {}

\* Every spawned child eventually closes or fails to spawn (the hypothesis,
\* which covers the `amp usage` children of captureAmpUsage too); the event
\* loop runs every callback that is ready: the limiter's next task, the
\* continuation of an await, a timer that is due.
FairDispatch ==
    /\ WF_vars(DispatchCall)
    /\ WF_vars(DispatchReturn)
    /\ \A i \in Slots :
          /\ WF_vars(TaskStart(i))
          /\ WF_vars(UsageBeforeDone(i))
          /\ WF_vars(TimerFire(i))
          /\ WF_vars(KillTimerFire(i))
          /\ WF_vars(ChildClose(i))
          /\ WF_vars(SpawnError(i))
          /\ WF_vars(TaskResume(i))
          /\ WF_vars(UsageAfterDone(i))

SpecQueueFair == InitQueue /\ [][Next]_vars /\ FairDispatch

\* the steps a task may take
TaskSteps ==
    {<<"unused", "queued">>,
     <<"queued", "usageBefore">>, <<"queued", "executing">>, <<"queued", "rejected">>,
     <<"usageBefore", "executing">>, <<"usageBefore", "rejected">>,
     <<"executing", "usageAfter">>, <<"executing", "fulfilled">>,
     <<"executing", "rejected">>,
     <<"usageAfter", "fulfilled">>, <<"usageAfter", "rejected">>}

GraceTick ==
    /\ ProcessRunning
    /\ process.exitTimers # {}
    /\ \A due \in process.exitTimers : process.now < due
    /\ process' = [process EXCEPT !.now = @ + 1]
    /\ UNCHANGED <<mode, execVars, dispVars, adIn, adOut, fnIn, fnOut>>

NextQueueInterrupt ==
    \/ ProcessRunning /\ Next
    \/ Sigint
    \/ GraceTick
    \/ ExitTimerFire

\* one limiter slot: the second task waits in the queue while the first runs
InitQueueInterrupt == InitQueue /\ config.maxParallel = 1

SpecQueueInterrupt == InitQueueInterrupt /\ [][NextQueueInterrupt]_vars

\* C29: once the SIGINT handler has run no child is spawned, so every child
\* alive when the parent exits is one the handler signalled.
C29_NoSpawnAfterSigint ==
    /\ [][process.sigintAt # <<>> =>
             \A i \in Slots : child[i] = "none" => child'[i] = "none"]_vars
    /\ [](process.exited =>
             \A i \in Slots : (Alive(i) /\ killable[i]) => i \in process.sigterm)

====
